---- MODULE Spec2Model ----
(***************************************************************************)
(* Guardian rate limiter: the in-process token bucket (guardian-core),     *)
(* its storage backends, the RateLimiter facade and the Redis take-token   *)
(* script (guardian-redis).                                                *)
(*                                                                         *)
(* Time is counted in milliseconds, the resolution of the refill formula   *)
(* (Duration::as_secs and Duration::subsec_millis).                        *)
(***************************************************************************)
EXTENDS Integers, Sequences, FiniteSets, TLC

(* ------------------------------ bounds -------------------------------- *)
\* largest TokenBucketConfig.capacity explored
MaxCapacity == 2
\* largest TokenBucketConfig.refill_rate (tokens per second) explored
MaxRate == 2
\* largest cost passed to a call
MaxCost == 2
\* the clock advances in steps of TickMs milliseconds, MaxTicks times at most
\* (ConcTicks times at most while threads are stepped one atomic access at a time)
TickMs == 500
MaxTicks == 2
ConcTicks == 1
\* threads sharing one TokenBucket, and calls they issue in total
NumWorkers == 2
MaxCalls == 2
\* largest BatchingBackend.batch_size explored, and the check_limit calls made
\* through one BatchingBackend
MaxBatch == 2
MaxBatchChecks == 3
\* largest TokenBucketConfig.refill_interval explored, in seconds
MaxIntervalSecs == 2
\* times a check_with_mode call is let sleep
MaxSleeps == 3
\* check(k, 1) calls issued in total by the NumWorkers + 1 concurrent checkers
MaxChecks == 6
\* take_token calls that reach the store, per key
MaxRedisTakes == 4

Workers == 1..NumWorkers
Costs == 0..MaxCost
TickIdx == 0..MaxTicks
Min(a, b) == IF a <= b THEN a ELSE b

VARIABLES
    capacity,       \* TokenBucketConfig.capacity
    refill_rate,    \* TokenBucketConfig.refill_rate
    refill_interval, \* TokenBucketConfig.refill_interval, in ms
    now,            \* SystemTime::now(), in ms
    \* --- one shared TokenBucket, thread-level steps ---
    tokens,         \* TokenBucket.tokens (AtomicU64)
    last_refill,    \* TokenBucket.last_refill (RwLock<SystemTime>), in ms
    lock,           \* holder of last_refill's write lock, 0 when free
    present,        \* the bucket exists (MemoryBackend: the key is in the map)
    pc,             \* per worker: where it stands in try_consume / available_tokens
    wop,            \* per worker: "consume" or "available"
    wcost,          \* per worker: cost argument of try_consume
    wnow,           \* per worker: `now` local of refill
    current,        \* per worker: `current` local (of refill, then of try_consume)
    to_add,         \* per worker: `tokens_to_add` local of refill
    \* --- observation of the run (not program state) ---
    calls,          \* calls started so far
    nAdmitted,      \* try_consume calls that returned Ok
    admLog,         \* admLog[i]: total cost admitted while now = i * TickMs (when kept)
    \* --- RateLimiter over a StorageBackend, whole calls ---
    backend,        \* which StorageBackend the RateLimiter owns
    fail_open,      \* RateLimiter.fail_open
    buckets,        \* MemoryBackend.buckets: key -> TokenBucket, or NoBucket
    ledger,         \* per key, since its bucket was created: cost admitted, refills
    ev,             \* the last call: its arguments, what it returned, what it found
    \* --- RedisBackend: processes sharing one store ---
    store,          \* the store: key -> hash {tokens, last_refill}, or NoRecord
    rlog,           \* per key: take calls executed, admitted per process, disturbances
    rev,            \* the last call on the store
    \* --- BatchingBackend over a StorageBackend ---
    batch_size,     \* BatchingBackend.batch_size
    local_cache,    \* BatchingBackend.local_cache: key -> LocalBatch, or NoBatch
    bev,            \* the last call through the BatchingBackend
    blog,           \* check_limit calls made through it, and the cost they admitted
    \* --- guardian-service: RPC handlers, interceptor, check_with_mode ---
    sev,            \* the last request handled
    cwm,            \* the check_with_mode call: its arguments, position and result
    \* --- CachedRedisBackend over the store ---
    cache_ttl,      \* CachedRedisBackend.cache_ttl, in ms
    cache,          \* CachedRedisBackend.local_cache: key -> CacheEntry, or NoEntry
    cev,            \* the last call through the CachedRedisBackend
    clog,           \* per key: tokens the cache entry held when filled, cost admitted from it since
    \* --- BatchingBackend wrappers, thread-level steps ---
    wrapper,        \* per worker: the BatchingBackend it calls
    wcache,         \* per wrapper: its local_cache entry for the key, or NoBatch
    left,           \* per worker: iterations of reserve_batch's loop still to run
    taken,          \* per wrapper: take_token(key, 1) calls the backend admitted for it
    tlock,          \* per task: the guard it holds on its wrapper's table: none, read, write
    \* --- MemoryBackend.buckets, thread-level steps of get_or_create_bucket ---
    arcs,           \* the TokenBucket allocations made so far
    in_map,         \* which allocation the map holds for the key, 0 when none
    handle,         \* per worker: the Arc<TokenBucket> it got, 0 when none
    removed,        \* reset calls that have run
    \* --- one client retrying take through the take script ---
    retry           \* the client's cost, the gap between its calls, where it is

bucketVars == <<tokens, last_refill, lock, present>>
workerVars == <<pc, wop, wcost, wnow, current, to_add>>
obsVars == <<calls, nAdmitted, admLog>>
cfgVars == <<capacity, refill_rate, refill_interval>>
concVars == <<bucketVars, workerVars, obsVars>>
seqVars == <<backend, fail_open, buckets, ledger, ev>>
redisVars == <<store, rlog, rev>>
batchVars == <<batch_size, local_cache, bev, blog>>
svcVars == <<sev, cwm>>
cacheVars == <<cache_ttl, cache, cev, clog>>
wrapVars == <<wrapper, wcache, left, taken, tlock>>
arcVars == <<arcs, in_map, handle, removed>>
retryVars == <<retry>>
laterVars == <<cacheVars, wrapVars, arcVars, retryVars>>
extVars == <<batchVars, svcVars, laterVars>>
vars == <<cfgVars, now, concVars, seqVars, redisVars, extVars>>
\* what the thread-level steps of one bucket leave alone
notConc == <<seqVars, redisVars, extVars>>
\* what the whole-call steps of the RateLimiter leave alone
notSeq == <<concVars, redisVars, extVars>>
\* what the calls on the store leave alone
notRedis == <<concVars, seqVars, extVars>>
\* what the calls through the BatchingBackend leave alone
notBatch == <<concVars, redisVars, ledger, ev, svcVars, laterVars>>
\* what the service's handlers leave alone
notSvc == <<concVars, redisVars, ledger, ev, batchVars, laterVars>>

\* the processes (service nodes) that share the store, and the keys they use
Procs == {"p1", "p2"}
StoreKeys == {"k1"}

Keys == {"k1", "k2"}
\* the key used through the BatchingBackend
BatchKeys == {"k1"}


(* ------------------------- TokenBucket::refill ------------------------ *)
TokensToAddWholeSeconds(elapsed, rate) == (elapsed \div 1000) * rate

TokensToAddRoundUp(elapsed, rate) == (elapsed * rate + 999) \div 1000

\* tokens_to_add of an elapsed Duration of `elapsed` ms (lib.rs 92-93)
TokensToAdd(elapsed, rate) ==
    ((elapsed \div 1000) * rate) + (((elapsed % 1000) * rate) \div 1000)

NewTokensUncapped(cur, add, cap) == cur + add

\* new_tokens stored by refill (lib.rs 97)
NewTokens(cur, add, cap) == Min(cur + add, cap)

ConsumedAtLeastOne(cur, cost) == cur - (IF cost = 0 THEN 1 ELSE cost)

ConsumedTwice(cur, cost) == cur - 2 * cost

\* the value try_consume's compare_exchange_weak writes (lib.rs 77)
Consumed(cur, cost) == cur - cost

InsufficientOnlyWhenEmpty(cur, cost) == cur = 0
InsufficientOrEqual(cur, cost) == cur <= cost

\* try_consume's early return (lib.rs 69)
Insufficient(cur, cost) == cur < cost

\* now.duration_since(*last) is Ok (lib.rs 91)
ElapsedOk(t, last) == t >= last

(* ---------------- TokenBucket, one call at a time ---------------------- *)
NoBucket == [present |-> FALSE, tokens |-> 0, last_refill |-> 0]

\* TokenBucket::new at instant t (lib.rs 55-62)
NewBucket(t) == [present |-> TRUE, tokens |-> capacity, last_refill |-> t]

refill_abs(b, t) ==
    LET e == IF t >= b.last_refill THEN t - b.last_refill ELSE b.last_refill - t
    IN IF TokensToAdd(e, refill_rate) > 0
       THEN [b EXCEPT !.tokens = NewTokens(b.tokens, TokensToAdd(e, refill_rate),
                                           capacity),
                      !.last_refill = t]
       ELSE b

\* TokenBucket::refill at instant t (lib.rs 87-102)
refill(b, t) ==
    IF ElapsedOk(t, b.last_refill)
       /\ TokensToAdd(t - b.last_refill, refill_rate) > 0
    THEN [b EXCEPT !.tokens = NewTokens(b.tokens,
                                        TokensToAdd(t - b.last_refill, refill_rate),
                                        capacity),
                   !.last_refill = t]
    ELSE b

\* TokenBucket::try_consume with no other thread in the bucket (lib.rs 64-85)
try_consume(b, cost, t) ==
    LET r == refill(b, t)
    IN IF Insufficient(r.tokens, cost)
       THEN [ok |-> FALSE, bucket |-> r]
       ELSE [ok |-> TRUE, bucket |-> [r EXCEPT !.tokens = Consumed(r.tokens, cost)]]

\* TokenBucket::available_tokens (lib.rs 104-107)
available_tokens(b, t) == [value |-> refill(b, t).tokens, bucket |-> refill(b, t)]

(* --------------------------- StorageBackend --------------------------- *)
\* Result<_, RateLimitError> of a backend call
Ok(v) == [kind |-> "Ok", value |-> v, error |-> "none"]
Err(e) == [kind |-> "Err", value |-> FALSE, error |-> e]

get_or_create_all(m, k, t) ==
    [j \in DOMAIN m |-> IF m[j].present THEN m[j] ELSE NewBucket(t)]

\* MemoryBackend::get_or_create_bucket (lib.rs 138-150)
get_or_create_bucket(m, k, t) ==
    IF m[k].present THEN m ELSE [m EXCEPT ![k] = NewBucket(t)]

\* MemoryBackend::take_token (lib.rs 155-162)
Memory_take_token(m, k, cost, t) ==
    LET m1 == get_or_create_bucket(m, k, t)
        r == try_consume(m1[k], cost, t)
    IN [res |-> Ok(r.ok), buckets |-> [m1 EXCEPT ![k] = r.bucket]]

\* MemoryBackend::get_usage (lib.rs 164-167)
Memory_get_usage(m, k, t) ==
    LET m1 == get_or_create_bucket(m, k, t)
        a == available_tokens(m1[k], t)
    IN [res |-> Ok(capacity - a.value), buckets |-> [m1 EXCEPT ![k] = a.bucket]]

Memory_reset_zeroing(m, k) ==
    [res |-> Ok(TRUE), buckets |-> [m EXCEPT ![k].tokens = 0]]

\* MemoryBackend::reset (lib.rs 169-173)
Memory_reset(m, k) == [res |-> Ok(TRUE), buckets |-> [m EXCEPT ![k] = NoBucket]]

\* FailingBackend of example_fail_open: every call returns the same StorageError
SimulatedFailure == "StorageError(Simulated failure)"
Failing_call(m) == [res |-> Err(SimulatedFailure), buckets |-> m]

\* the backend the RateLimiter was built over
take_token(m, k, cost, t) ==
    IF backend = "memory" THEN Memory_take_token(m, k, cost, t) ELSE Failing_call(m)
get_usage(m, k, t) ==
    IF backend = "memory" THEN Memory_get_usage(m, k, t) ELSE Failing_call(m)
reset(m, k) ==
    IF backend = "memory" THEN Memory_reset(m, k) ELSE Failing_call(m)

(* ----------------------------- RateLimiter ---------------------------- *)
Allowed == [kind |-> "Allowed", retry_after |-> 0, error |-> "none"]
Denied(ms) == [kind |-> "Denied", retry_after |-> ms, error |-> "none"]
Failed(e) == [kind |-> "Err", retry_after |-> 0, error |-> e]

check_limit_always_closed(r, fo) ==
    IF r.kind = "Ok"
    THEN IF r.value THEN Allowed ELSE Denied(1000)
    ELSE Failed(r.error)
check_limit_always_open(r, fo) ==
    IF r.kind = "Ok"
    THEN IF r.value THEN Allowed ELSE Denied(1000)
    ELSE Allowed
check_limit_open_on_denial(r, fo) ==
    IF r.kind = "Ok"
    THEN IF r.value \/ fo THEN Allowed ELSE Denied(1000)
    ELSE IF fo THEN Allowed ELSE Failed(r.error)

\* RateLimiter::check_limit's match on what take_token returned (lib.rs 287-300)
check_limit(r, fo) ==
    IF r.kind = "Ok"
    THEN IF r.value THEN Allowed ELSE Denied(1000)
    ELSE IF fo THEN Allowed ELSE Failed(r.error)

\* the ledger of key k after a call that took `cost` from its bucket: the
\* admitted cost-1 calls and the total cost admitted since the bucket was
\* created, for as long as no refill has added anything to it
NoLedger == [ones |-> 0, sum |-> 0, refilled |-> FALSE]
Booked(m, k, cost, t, admitted) ==
    LET old == IF m[k].present THEN ledger[k] ELSE NoLedger
        b0 == get_or_create_bucket(m, k, t)[k]
    IN IF old.refilled \/ refill(b0, t) # b0
       THEN [ones |-> 0, sum |-> 0, refilled |-> TRUE]
       ELSE [ones |-> old.ones + (IF admitted /\ cost = 1 THEN 1 ELSE 0),
             sum |-> old.sum + (IF admitted THEN cost ELSE 0),
             refilled |-> FALSE]

\* RateLimiter::check_limit(client_id, cost) (lib.rs 282-301)
CheckLimit(k, cost) ==
    LET r == take_token(buckets, k, cost, now)
    IN /\ buckets' = r.buckets
       /\ ev' = [op |-> "check_limit", key |-> k, cost |-> cost,
                 result |-> check_limit(r.res, fail_open),
                 before |-> buckets[k], led |-> ledger[k]]
       /\ ledger' = IF backend = "memory"
                    THEN [ledger EXCEPT ![k] =
                            Booked(buckets, k, cost, now, r.res.value)]
                    ELSE ledger
       /\ UNCHANGED <<cfgVars, now, backend, fail_open, notSeq>>

\* RateLimiter::get_usage(client_id) (lib.rs 303-305)
GetUsage(k) ==
    LET r == get_usage(buckets, k, now)
    IN /\ buckets' = r.buckets
       /\ ev' = [op |-> "get_usage", key |-> k, cost |-> 0,
                 result |-> r.res,
                 before |-> buckets[k], led |-> ledger[k]]
       /\ ledger' = IF backend = "memory"
                    THEN [ledger EXCEPT ![k] = Booked(buckets, k, 0, now, FALSE)]
                    ELSE ledger
       /\ UNCHANGED <<cfgVars, now, backend, fail_open, notSeq>>

\* StorageBackend::reset(key) on the backend (lib.rs 169-173)
Reset(k) ==
    LET r == reset(buckets, k)
    IN /\ buckets' = r.buckets
       /\ ev' = [op |-> "reset", key |-> k, cost |-> 0,
                 result |-> r.res,
                 before |-> buckets[k], led |-> ledger[k]]
       /\ ledger' = IF backend = "memory"
                    THEN [ledger EXCEPT ![k] = NoLedger]
                    ELSE ledger
       /\ UNCHANGED <<cfgVars, now, backend, fail_open, notSeq>>

\* the default TokenBucketConfig.refill_interval, 1 s (lib.rs 42)
DefaultInterval == 1000

\* BatchingBackend.local_cache holds no LocalBatch for a key
NoBatch == [present |-> FALSE, available |-> 0]
NoBatchEvent == [op |-> "none", key |-> "k1", cost |-> 0, res |-> Ok(TRUE),
                 result |-> Allowed,
                 lc |-> NoBatch, before |-> NoBucket, takes |-> 0, denied |-> FALSE]
NoBatchLog == [checks |-> 0, admitted |-> 0]
\* a request without a client-id metadata entry
NoHeader == [present |-> FALSE, ascii |-> TRUE, value |-> ""]
NoReply == [status |-> "none", allowed |-> FALSE, retry_after_seconds |-> 0,
            used_tokens |-> 0, success |-> FALSE]
NoSvcEvent == [op |-> "none", client_id |-> "", header |-> NoHeader, cost |-> 0,
               result |-> Allowed, reply |-> NoReply, before |-> <<>>]
NoRet == [kind |-> "none", value |-> FALSE, error |-> "none"]
NoCall == [pc |-> "idle", mode |-> "NonBlocking", client_id |-> "k1", cost |-> 0,
           retry_after |-> 0, sleeps |-> 0, ret |-> NoRet]

\* no BatchingBackend and no service in this run
IdleBatch ==
    /\ batch_size = 1
    /\ local_cache = [k \in BatchKeys |-> NoBatch]
    /\ bev = NoBatchEvent
    /\ blog = NoBatchLog
IdleSvc ==
    /\ sev = NoSvcEvent
    /\ cwm = NoCall
\* CachedRedisBackend.local_cache holds no CacheEntry for a key
NoEntry == [present |-> FALSE, tokens |-> 0, expires_at |-> 0, filled_at |-> 0]
NoCacheEvent == [op |-> "none", cost |-> 0, res |-> Ok(TRUE), from_cache |-> FALSE,
                 entry |-> NoEntry,
                 stored |-> [present |-> FALSE, tokens |-> 0, last_refill |-> 0],
                 store_takes |-> 0]
\* no CachedRedisBackend in this run
IdleCache ==
    /\ cache_ttl = 0
    /\ cache = [k \in StoreKeys |-> NoEntry]
    /\ cev = NoCacheEvent
    /\ clog = <<>>
\* no thread-level run of BatchingBackend wrappers
IdleWrap ==
    /\ wrapper = <<>>
    /\ wcache = <<>>
    /\ left = <<>>
    /\ taken = <<>>
    /\ tlock = <<>>
\* no thread-level run of get_or_create_bucket
IdleArc ==
    /\ arcs = <<>>
    /\ in_map = 0
    /\ handle = <<>>
    /\ removed = 0
\* no retrying client
NoRetry == [phase |-> "none", cost |-> 0, gap |-> 0]
IdleRetry == retry = NoRetry
IdleLater ==
    /\ IdleCache
    /\ IdleWrap
    /\ IdleArc
    /\ IdleRetry
IdleExt ==
    /\ refill_interval = DefaultInterval
    /\ IdleBatch
    /\ IdleSvc
    /\ IdleLater

NoEvent == [op |-> "none", key |-> "k1", cost |-> 0, result |-> Ok(TRUE),
            before |-> NoBucket, led |-> NoLedger]

\* no RateLimiter in this run
IdleSeq ==
    /\ backend = "memory"
    /\ fail_open = FALSE
    /\ buckets = [k \in Keys |-> NoBucket]
    /\ ledger = [k \in Keys |-> NoLedger]
    /\ ev = NoEvent

\* no thread-level run of a bucket
IdleConc ==
    /\ tokens = 0
    /\ last_refill = 0
    /\ lock = 0
    /\ present = FALSE
    /\ pc = <<>>
    /\ wop = <<>>
    /\ wcost = <<>>
    /\ wnow = <<>>
    /\ current = <<>>
    /\ to_add = <<>>
    /\ calls = 0
    /\ nAdmitted = 0
    /\ admLog = <<>>

(* ------------------ RedisBackend and its Lua scripts ------------------- *)
\* The scripts compute on Lua numbers; `now` is Unix time as f64 seconds and
\* HMSET writes numbers back with 14 significant digits, which keeps whole
\* tokens and millisecond instants exact.  Instants are counted in ms here,
\* so math.floor(elapsed * refill_rate) is a floored division by 1000.
NoRecord == [present |-> FALSE, tokens |-> 0, last_refill |-> 0]

\* math.floor(elapsed * refill_rate) (redis lib.rs 57-58, 91-92)
ScriptTokensToAdd(elapsed, rate) == (elapsed * rate) \div 1000

ScriptCanConsumeStrict(tk, cost) == tk > cost

\* the script's `tokens >= cost` (redis lib.rs 64)
ScriptCanConsume(tk, cost) == tk >= cost

\* the take-token script, run atomically on the hash at one key
\* (redis lib.rs 35-76); ret is the integer reply
take_token_script(rec, cap, rate, cost, t) ==
    LET tokens0 == IF rec.present THEN rec.tokens ELSE cap
        last0 == IF rec.present THEN rec.last_refill ELSE t
        tokens1 == Min(cap, tokens0 + ScriptTokensToAdd(t - last0, rate))
    IN IF ScriptCanConsume(tokens1, cost)
       THEN [ret |-> 1,
             rec |-> [present |-> TRUE, tokens |-> tokens1 - cost, last_refill |-> t]]
       ELSE [ret |-> 0,
             rec |-> [present |-> TRUE, tokens |-> tokens1, last_refill |-> t]]

get_usage_script_raw(rec, cap, rate, t) ==
    cap - (IF rec.present THEN rec.tokens ELSE cap)

\* the get-usage script (redis lib.rs 78-98): reads, never writes
get_usage_script(rec, cap, rate, t) ==
    LET tokens0 == IF rec.present THEN rec.tokens ELSE cap
        last0 == IF rec.present THEN rec.last_refill ELSE t
    IN cap - Min(cap, tokens0 + ScriptTokensToAdd(t - last0, rate))

\* the instants a process may read from its own clock
Instants == {i * TickMs : i \in TickIdx}

NoTakes == [calls |-> 0, admitted |-> [p \in Procs |-> 0], clean |-> TRUE]

\* RedisBackend::take_token (redis lib.rs 110-128): the script runs and its
\* reply reaches the caller
RedisTake(p, k, cost, t) ==
    LET r == take_token_script(store[k], capacity, refill_rate, cost, t)
    IN /\ rlog[k].calls < MaxRedisTakes
       /\ store' = [store EXCEPT ![k] = r.rec]
       /\ rev' = [op |-> "take_token", proc |-> p, key |-> k, cost |-> cost,
                  at |-> t, result |-> Ok(r.ret = 1), before |-> store[k]]
       /\ rlog' = [rlog EXCEPT ![k] =
                     [calls |-> @.calls + 1,
                      admitted |-> [@.admitted EXCEPT ![p] =
                                      @ + (IF r.ret = 1 THEN 1 ELSE 0)],
                      clean |-> @.clean /\ cost = 1]]
       /\ UNCHANGED <<cfgVars, now, notRedis>>

\* RedisBackend::get_usage (redis lib.rs 130-147)
RedisGetUsage(p, k, t) ==
    /\ rev' = [op |-> "get_usage", proc |-> p, key |-> k, cost |-> 0, at |-> t,
               result |-> Ok(get_usage_script(store[k], capacity, refill_rate, t)),
               before |-> store[k]]
    /\ UNCHANGED <<cfgVars, now, store, rlog, notRedis>>

\* RedisBackend::reset (redis lib.rs 149-155): DEL key
RedisReset(p, k) ==
    /\ store' = [store EXCEPT ![k] = NoRecord]
    /\ rev' = [op |-> "reset", proc |-> p, key |-> k, cost |-> 0, at |-> 0,
               result |-> Ok(TRUE), before |-> store[k]]
    /\ rlog' = [rlog EXCEPT ![k].clean = FALSE]
    /\ UNCHANGED <<cfgVars, now, notRedis>>

\* the store evicts a key 3600 s after its last write (EXPIRE, redis lib.rs 67, 71);
\* the store's own clock is not the callers', so this may come at any point
Expire(k) ==
    /\ store[k].present
    /\ store' = [store EXCEPT ![k] = NoRecord]
    /\ rev' = [op |-> "expire", proc |-> "p1", key |-> k, cost |-> 0, at |-> 0,
               result |-> Ok(TRUE), before |-> store[k]]
    /\ rlog' = [rlog EXCEPT ![k].clean = FALSE]
    /\ UNCHANGED <<cfgVars, now, notRedis>>

\* a call that fails in transport before the store runs anything: the
\* map_err arms (redis lib.rs 123-125, 142-144, 153)
RedisUnavailable(p, k, op) ==
    /\ rev' = [op |-> op, proc |-> p, key |-> k, cost |-> 0, at |-> 0,
               result |-> Err("StorageError"), before |-> store[k]]
    /\ UNCHANGED <<cfgVars, now, store, rlog, notRedis>>

NoRedisEvent == [op |-> "none", proc |-> "p1", key |-> "k1", cost |-> 0, at |-> 0,
                 result |-> Ok(TRUE), before |-> NoRecord]

\* no store in this run
IdleRedis ==
    /\ store = [k \in StoreKeys |-> NoRecord]
    /\ rlog = [k \in StoreKeys |-> NoTakes]
    /\ rev = NoRedisEvent

(* ------------- one TokenBucket shared by several threads -------------- *)
\* A thread enters try_consume(cost) or available_tokens(); both start with
\* refill(), whose first statement reads the clock (lib.rs 65, 88, 105).
Call(w, op, cost) ==
    /\ pc[w] = "idle"
    /\ pc' = [pc EXCEPT ![w] = "lock"]
    /\ wop' = [wop EXCEPT ![w] = op]
    /\ wcost' = [wcost EXCEPT ![w] = cost]
    /\ wnow' = [wnow EXCEPT ![w] = now]
    /\ calls' = calls + 1
    /\ UNCHANGED <<cfgVars, now, bucketVars, current, to_add, nAdmitted, admLog>>
    /\ UNCHANGED notConc

\* refill: take the write lock on last_refill, compute tokens_to_add; when it
\* is positive load tokens and keep the lock, otherwise leave (lib.rs 89-96).
RefillLock(w) ==
    /\ pc[w] = "lock"
    /\ lock = 0
    /\ LET add == IF ElapsedOk(wnow[w], last_refill)
                  THEN TokensToAdd(wnow[w] - last_refill, refill_rate)
                  ELSE 0
       IN IF add > 0
          THEN /\ lock' = w
               /\ to_add' = [to_add EXCEPT ![w] = add]
               /\ current' = [current EXCEPT ![w] = tokens]
               /\ pc' = [pc EXCEPT ![w] = "store"]
          ELSE /\ pc' = [pc EXCEPT ![w] = "load"]
               /\ UNCHANGED <<lock, to_add, current>>
    /\ UNCHANGED <<cfgVars, now, tokens, last_refill, present, wop, wcost, wnow, obsVars>>
    /\ UNCHANGED notConc

\* refill: store new_tokens, set last_refill, release the lock (lib.rs 97-101)
RefillStore(w) ==
    /\ pc[w] = "store"
    /\ tokens' = NewTokens(current[w], to_add[w], capacity)
    /\ last_refill' = wnow[w]
    /\ lock' = 0
    /\ pc' = [pc EXCEPT ![w] = "load"]
    /\ UNCHANGED <<cfgVars, now, present, wop, wcost, wnow, current, to_add, obsVars>>
    /\ UNCHANGED notConc

\* the call returns: its locals go out of scope
Return(w) ==
    /\ pc' = [pc EXCEPT ![w] = "idle"]
    /\ wop' = [wop EXCEPT ![w] = "consume"]
    /\ wcost' = [wcost EXCEPT ![w] = 0]
    /\ wnow' = [wnow EXCEPT ![w] = 0]
    /\ current' = [current EXCEPT ![w] = 0]
    /\ to_add' = [to_add EXCEPT ![w] = 0]

\* the load after refill: try_consume's first load (lib.rs 67), or the value
\* available_tokens returns (lib.rs 106)
Load(w) ==
    /\ pc[w] = "load"
    /\ IF wop[w] = "consume"
       THEN /\ pc' = [pc EXCEPT ![w] = "cas"]
            /\ current' = [current EXCEPT ![w] = tokens]
            /\ UNCHANGED <<wop, wcost, wnow, to_add>>
       ELSE Return(w)
    /\ UNCHANGED <<cfgVars, now, bucketVars, calls, nAdmitted, admLog>>
    /\ UNCHANGED notConc

\* one pass of try_consume's loop (lib.rs 68-84)
Cas(w) ==
    /\ pc[w] = "cas"
    /\ IF Insufficient(current[w], wcost[w])
       THEN /\ Return(w)
            /\ UNCHANGED <<tokens, nAdmitted, admLog>>
       ELSE IF tokens = current[w]
       THEN /\ tokens' = Consumed(current[w], wcost[w])
            /\ nAdmitted' = nAdmitted + 1
            /\ admLog' = IF admLog = <<>> THEN admLog
                         ELSE [admLog EXCEPT ![now \div TickMs] = @ + wcost[w]]
            /\ Return(w)
       ELSE /\ current' = [current EXCEPT ![w] = tokens]
            /\ UNCHANGED <<tokens, pc, nAdmitted, admLog, wop, wcost, wnow, to_add>>
    /\ UNCHANGED <<cfgVars, now, last_refill, lock, present, calls>>
    /\ UNCHANGED notConc

\* the wall clock advances; the last call is no longer the latest event
Tick ==
    /\ now < MaxTicks * TickMs
    /\ now' = now + TickMs
    /\ ev' = NoEvent
    /\ UNCHANGED <<cfgVars, concVars, backend, fail_open, buckets, ledger, redisVars,
                   extVars>>

\* the wall clock advances while threads are inside the bucket
ConcTick ==
    /\ now < ConcTicks * TickMs
    /\ now' = now + TickMs
    /\ UNCHANGED <<cfgVars, concVars, seqVars, redisVars, extVars>>

\* a second passes while checkers are inside MemoryBackend::take_token
SecondTick ==
    /\ now < 1000
    /\ now' = now + 1000
    /\ UNCHANGED <<cfgVars, concVars, seqVars, redisVars, extVars>>

\* TokenBucket::new (lib.rs 55-62) with every thread outside the bucket
InitBucket(W) ==
    /\ now = 0
    /\ tokens = capacity
    /\ last_refill = 0
    /\ lock = 0
    /\ present = TRUE
    /\ pc = [w \in W |-> "idle"]
    /\ wop = [w \in W |-> "consume"]
    /\ wcost = [w \in W |-> 0]
    /\ wnow = [w \in W |-> 0]
    /\ current = [w \in W |-> 0]
    /\ to_add = [w \in W |-> 0]
    /\ calls = 0
    /\ nAdmitted = 0

InitConc ==
    /\ IdleExt
    /\ capacity \in 1..MaxCapacity
    /\ refill_rate \in 0..MaxRate
    /\ InitBucket(Workers)
    /\ admLog = <<>>
    /\ IdleSeq
    /\ IdleRedis

\* the same run, keeping the log of what was admitted when
InitRate ==
    /\ IdleExt
    /\ capacity \in 1..MaxCapacity
    /\ refill_rate \in 0..MaxRate
    /\ InitBucket(Workers)
    /\ admLog = [i \in 0..ConcTicks |-> 0]
    /\ IdleSeq
    /\ IdleRedis

StepConc(w) ==
    \/ RefillLock(w)
    \/ RefillStore(w)
    \/ Load(w)
    \/ Cas(w)

NextConc ==
    \/ \E w \in Workers, c \in Costs : calls < MaxCalls /\ Call(w, "consume", c)
    \/ \E w \in Workers : calls < MaxCalls /\ Call(w, "available", 0)
    \/ \E w \in Workers : StepConc(w)
    \/ ConcTick

SpecConc == InitConc /\ [][NextConc]_vars

SpecRate == InitRate /\ [][NextConc]_vars

(* ------- MemoryBackend::take_token(k, 1) from concurrent checkers ------ *)
Checkers == 1..(NumWorkers + 1)

\* MemoryBackend::get_or_create_bucket (lib.rs 138-150): the lookup, and on a
\* miss the insertion of TokenBucket::new under the map's write lock
GetOrCreate(w) ==
    /\ pc[w] = "idle"
    /\ calls < MaxChecks
    /\ calls' = calls + 1
    /\ pc' = [pc EXCEPT ![w] = "enter"]
    /\ IF present
       THEN UNCHANGED <<tokens, last_refill, present>>
       ELSE /\ present' = TRUE
            /\ tokens' = capacity
            /\ last_refill' = now
    /\ UNCHANGED <<cfgVars, now, lock, wop, wcost, wnow, current, to_add,
                   nAdmitted, admLog>>
    /\ UNCHANGED notConc

\* bucket.try_consume(1) begins: refill reads the clock (lib.rs 157, 65, 88)
Enter(w) ==
    /\ pc[w] = "enter"
    /\ pc' = [pc EXCEPT ![w] = "lock"]
    /\ wcost' = [wcost EXCEPT ![w] = 1]
    /\ wnow' = [wnow EXCEPT ![w] = now]
    /\ UNCHANGED <<cfgVars, now, bucketVars, wop, current, to_add, obsVars>>
    /\ UNCHANGED notConc

\* a fresh MemoryBackend: no bucket yet
InitCheck1 ==
    /\ IdleExt
    /\ capacity = MaxCapacity + 1
    /\ refill_rate = 1
    /\ now = 0
    /\ tokens = 0
    /\ last_refill = 0
    /\ lock = 0
    /\ present = FALSE
    /\ pc = [w \in Checkers |-> "idle"]
    /\ wop = [w \in Checkers |-> "consume"]
    /\ wcost = [w \in Checkers |-> 0]
    /\ wnow = [w \in Checkers |-> 0]
    /\ current = [w \in Checkers |-> 0]
    /\ to_add = [w \in Checkers |-> 0]
    /\ calls = 0
    /\ nAdmitted = 0
    /\ admLog = <<>>
    /\ IdleSeq
    /\ IdleRedis

NextCheck1 ==
    \/ \E w \in Checkers : GetOrCreate(w) \/ Enter(w) \/ StepConc(w)
    \/ SecondTick

SpecCheck1 == InitCheck1 /\ [][NextCheck1]_vars

(* ------------------- RateLimiter: the whole-call runs ----------------- *)
\* RateLimiter::new(backend, fail_open) over a fresh backend (lib.rs 275-280)
Init ==
    /\ IdleExt
    /\ capacity \in 1..MaxCapacity
    /\ refill_rate \in 0..MaxRate
    /\ now = 0
    /\ backend \in {"memory", "failing"}
    /\ fail_open \in BOOLEAN
    /\ buckets = [k \in Keys |-> NoBucket]
    /\ ledger = [k \in Keys |-> NoLedger]
    /\ ev = NoEvent
    /\ IdleConc
    /\ IdleRedis

Next ==
    \/ \E k \in Keys, c \in Costs : CheckLimit(k, c)
    \/ \E k \in Keys : GetUsage(k)
    \/ \E k \in Keys : Reset(k)
    \/ Tick

Spec == Init /\ [][Next]_vars

(* ------------- BatchingBackend over a StorageBackend ------------------- *)
\* RateLimitError::LimitExceeded(key)
LimitExceeded(k) == "LimitExceeded(" \o k \o ")"

\* BatchingBackend::reserve_batch (lib.rs 200-208): n more take_token(key, 1)
\* on the backend underneath; the `?` hands its error on, a refusal ends the
\* loop with LimitExceeded, and the tokens taken so far stay taken
RECURSIVE reserve_batch(_, _, _, _)
reserve_batch(m, k, n, t) ==
    IF n = 0
    THEN [res |-> Ok(TRUE), buckets |-> m, takes |-> 0, denied |-> FALSE]
    ELSE LET r == take_token(m, k, 1, t)
         IN IF r.res.kind = "Err"
            THEN [res |-> r.res, buckets |-> r.buckets, takes |-> 1, denied |-> FALSE]
            ELSE IF ~r.res.value
            THEN [res |-> Err(LimitExceeded(k)), buckets |-> r.buckets,
                  takes |-> 1, denied |-> TRUE]
            ELSE LET rest == reserve_batch(r.buckets, k, n - 1, t)
                 IN [rest EXCEPT !.takes = @ + 1]

or_insert_with_extra(lc, k, n) ==
    IF lc[k].present THEN lc ELSE [lc EXCEPT ![k] = [present |-> TRUE, available |-> n + 1]]

\* cache.entry(key).or_insert_with(LocalBatch { available: batch_size, .. })
\* (lib.rs 238-241): an entry that is there is left as it is
or_insert_with(lc, k, n) ==
    IF lc[k].present THEN lc ELSE [lc EXCEPT ![k] = [present |-> TRUE, available |-> n]]

\* BatchingBackend::take_token with one caller at a time (lib.rs 213-250)
Batching_take_token(m, lc, k, cost, t) ==
    IF lc[k].present /\ lc[k].available >= cost
    THEN [res |-> Ok(TRUE), buckets |-> m,
          cache |-> [lc EXCEPT ![k].available = @ - cost],
          takes |-> 0, denied |-> FALSE]
    ELSE LET rb == reserve_batch(m, k, batch_size, t)
             lc1 == or_insert_with(lc, k, batch_size)
         IN IF rb.res.kind = "Err"
            THEN [res |-> rb.res, buckets |-> rb.buckets, cache |-> lc,
                  takes |-> rb.takes, denied |-> rb.denied]
            ELSE IF lc1[k].available >= cost
            THEN [res |-> Ok(TRUE), buckets |-> rb.buckets,
                  cache |-> [lc1 EXCEPT ![k].available = @ - cost],
                  takes |-> rb.takes, denied |-> FALSE]
            ELSE [res |-> Ok(FALSE), buckets |-> rb.buckets, cache |-> lc1,
                  takes |-> rb.takes, denied |-> FALSE]

\* RateLimiter::check_limit over the BatchingBackend (lib.rs 282-301, 213-250)
BatchCheckLimit(k, cost) ==
    LET r == Batching_take_token(buckets, local_cache, k, cost, now)
        d == check_limit(r.res, fail_open)
    IN /\ blog.checks < MaxBatchChecks
       /\ buckets' = r.buckets
       /\ local_cache' = r.cache
       /\ bev' = [op |-> "check_limit", key |-> k, cost |-> cost, res |-> r.res,
                  result |-> d,
                  lc |-> local_cache[k], before |-> buckets[k],
                  takes |-> r.takes, denied |-> r.denied]
       /\ blog' = [checks |-> blog.checks + 1,
                   admitted |-> blog.admitted + (IF d = Allowed THEN cost ELSE 0)]
       /\ UNCHANGED <<cfgVars, now, backend, fail_open, batch_size, notBatch>>

\* BatchingBackend::get_usage (lib.rs 252-254): the backend's own
BatchGetUsage(k) ==
    LET r == get_usage(buckets, k, now)
    IN /\ buckets' = r.buckets
       /\ bev' = [NoBatchEvent EXCEPT !.op = "get_usage", !.key = k, !.res = r.res,
                                     !.lc = local_cache[k], !.before = buckets[k]]
       /\ UNCHANGED <<cfgVars, now, backend, fail_open, batch_size, local_cache,
                      blog, notBatch>>

\* BatchingBackend::reset (lib.rs 256-262): drop the LocalBatch, reset below
BatchReset(k) ==
    LET r == reset(buckets, k)
    IN /\ local_cache' = [local_cache EXCEPT ![k] = NoBatch]
       /\ buckets' = r.buckets
       /\ bev' = [NoBatchEvent EXCEPT !.op = "reset", !.key = k, !.res = r.res,
                                     !.lc = local_cache[k], !.before = buckets[k]]
       /\ UNCHANGED <<cfgVars, now, backend, fail_open, batch_size, blog, notBatch>>

\* RateLimiter::new(BatchingBackend::new(backend, batch_size), fail_open)
InitBatch ==
    /\ capacity \in 1..MaxCapacity
    /\ refill_rate \in 0..MaxRate
    /\ refill_interval = DefaultInterval
    /\ now = 0
    /\ backend \in {"memory", "failing"}
    /\ fail_open \in BOOLEAN
    /\ buckets = [k \in BatchKeys |-> NoBucket]
    /\ ledger = [k \in Keys |-> NoLedger]
    /\ ev = NoEvent
    /\ batch_size \in 1..MaxBatch
    /\ local_cache = [k \in BatchKeys |-> NoBatch]
    /\ bev = NoBatchEvent
    /\ blog = NoBatchLog
    /\ IdleSvc
    /\ IdleLater
    /\ IdleConc
    /\ IdleRedis

NextBatch ==
    \/ \E k \in BatchKeys, c \in Costs : BatchCheckLimit(k, c)
    \/ \E k \in BatchKeys : BatchGetUsage(k)
    \/ \E k \in BatchKeys : BatchReset(k)
    \/ Tick

SpecBatch == InitBatch /\ [][NextBatch]_vars

(* ---------------- guardian-service: GuardianService -------------------- *)
\* the client_id values requests carry
ServiceIds == {"", "anonymous"}
\* the refill_interval values a configuration may carry, in ms
Intervals == {TickMs} \cup {i * 1000 : i \in 1..MaxIntervalSecs}

Max(a, b) == IF a >= b THEN a ELSE b

\* req.cost.max(1) (main.rs 45)
RequestCost(cost) == Max(cost, 1)

\* the CheckLimitResponse or Status built from check_limit's result (main.rs 48-74)
CheckLimitReply(d) ==
    IF d.kind = "Allowed"
    THEN [NoReply EXCEPT !.status = "ok", !.allowed = TRUE]
    ELSE IF d.kind = "Denied"
    THEN [NoReply EXCEPT !.status = "ok",
                         !.retry_after_seconds = d.retry_after \div 1000]
    ELSE [NoReply EXCEPT !.status = "internal"]

\* GuardianService::check_limit (main.rs 39-75)
RpcCheckLimit(id, cost) ==
    LET r == take_token(buckets, id, RequestCost(cost), now)
        d == check_limit(r.res, fail_open)
    IN /\ buckets' = r.buckets
       /\ sev' = [op |-> "check_limit", client_id |-> id, header |-> NoHeader,
                  cost |-> cost, result |-> d, reply |-> CheckLimitReply(d),
                  before |-> buckets]
       /\ UNCHANGED <<cfgVars, now, backend, fail_open, cwm, notSvc>>

\* GuardianService::get_usage (main.rs 77-96)
RpcGetUsage(id) ==
    LET r == get_usage(buckets, id, now)
    IN /\ buckets' = r.buckets
       /\ sev' = [NoSvcEvent EXCEPT
                    !.op = "get_usage", !.client_id = id, !.before = buckets,
                    !.reply = IF r.res.kind = "Ok"
                              THEN [NoReply EXCEPT !.status = "ok",
                                                   !.used_tokens = r.res.value]
                              ELSE [NoReply EXCEPT !.status = "internal"]]
       /\ UNCHANGED <<cfgVars, now, backend, fail_open, cwm, notSvc>>

\* GuardianService::reset_limit (main.rs 98-110): replies success, does nothing
RpcResetLimit(id) ==
    /\ sev' = [NoSvcEvent EXCEPT
                 !.op = "reset_limit", !.client_id = id, !.before = buckets,
                 !.reply = [NoReply EXCEPT !.status = "ok", !.success = TRUE]]
    /\ UNCHANGED <<cfgVars, now, backend, fail_open, buckets, cwm, notSvc>>

\* GuardianClient::reset_limit's return for the service's answer
\* (client.rs 146-156)
Client_reset_limit(reply) ==
    IF reply.status # "ok" THEN Err("RpcError")
    ELSE IF reply.success THEN Ok(TRUE)
    ELSE Err("ResetFailed")

\* the wall clock advances between requests; the last request is no longer
\* the latest event
SvcTick ==
    /\ now < MaxTicks * TickMs
    /\ now' = now + TickMs
    /\ sev' = NoSvcEvent
    /\ UNCHANGED <<cfgVars, backend, fail_open, buckets, cwm, notSvc>>

\* GuardianService::new(RateLimiter::new(backend, fail_open)) (main.rs 28-32)
InitService ==
    /\ capacity \in 1..MaxCapacity
    /\ refill_rate \in 0..MaxRate
    /\ refill_interval \in Intervals
    /\ now = 0
    /\ backend \in {"memory", "failing"}
    /\ fail_open \in BOOLEAN
    /\ buckets = [k \in ServiceIds |-> NoBucket]
    /\ ledger = [k \in Keys |-> NoLedger]
    /\ ev = NoEvent
    /\ IdleSvc
    /\ IdleLater
    /\ IdleBatch
    /\ IdleConc
    /\ IdleRedis

NextService ==
    \/ \E id \in ServiceIds, c \in Costs : RpcCheckLimit(id, c)
    \/ \E id \in ServiceIds : RpcGetUsage(id)
    \/ \E id \in ServiceIds : RpcResetLimit(id)
    \/ SvcTick

SpecService == InitService /\ [][NextService]_vars

(* -------------- guardian-service: RateLimitInterceptor ---------------- *)
\* the client-id metadata entry of a request: absent, a visible-ASCII value,
\* or bytes that to_str() refuses
Headers == {NoHeader,
            [present |-> TRUE, ascii |-> TRUE, value |-> "alice"],
            [present |-> TRUE, ascii |-> FALSE, value |-> "alice"]}
InterceptKeys == {"anonymous", "alice"}

\* metadata().get("client-id").and_then(to_str().ok()).unwrap_or("anonymous")
\* (main.rs 161-165)
client_id(h) == IF h.present /\ h.ascii THEN h.value ELSE "anonymous"

InterceptStatusForwardAll(d) ==
    IF d.kind = "Err" THEN "internal" ELSE "forward"

\* what intercept returns for check_limit's result (main.rs 168-175)
InterceptStatus(d) ==
    IF d.kind = "Allowed" THEN "forward"
    ELSE IF d.kind = "Denied" THEN "resource_exhausted"
    ELSE "internal"

\* RateLimitInterceptor::intercept (main.rs 159-176)
Intercept(h) ==
    LET r == take_token(buckets, client_id(h), 1, now)
        d == check_limit(r.res, fail_open)
    IN /\ buckets' = r.buckets
       /\ sev' = [op |-> "intercept", client_id |-> client_id(h), header |-> h,
                  cost |-> 1, result |-> d,
                  reply |-> [NoReply EXCEPT !.status = InterceptStatus(d)],
                  before |-> buckets]
       /\ UNCHANGED <<cfgVars, now, backend, fail_open, cwm, notSvc>>

\* RateLimitInterceptor::new(config): a MemoryBackend of its own, fail-open
\* (main.rs 151-157)
InitInterceptor ==
    /\ capacity \in 1..MaxCapacity
    /\ refill_rate \in 0..MaxRate
    /\ refill_interval \in Intervals
    /\ now = 0
    /\ backend = "memory"
    /\ fail_open = TRUE
    /\ buckets = [k \in InterceptKeys |-> NoBucket]
    /\ ledger = [k \in Keys |-> NoLedger]
    /\ ev = NoEvent
    /\ IdleSvc
    /\ IdleLater
    /\ IdleBatch
    /\ IdleConc
    /\ IdleRedis

NextInterceptor ==
    \/ \E h \in Headers : Intercept(h)
    \/ SvcTick

SpecInterceptor == InitInterceptor /\ [][NextInterceptor]_vars

(* ---------------- guardian-service: check_with_mode -------------------- *)
\* the key check_with_mode is called on
CwmKeys == {"k1"}

\* a take on the key by some caller before check_with_mode is called
PriorTake(k, cost) ==
    /\ cwm.pc = "idle"
    /\ buckets' = take_token(buckets, k, cost, now).buckets
    /\ UNCHANGED <<cfgVars, now, backend, fail_open, sev, cwm, notSvc>>

\* check_with_mode(limiter, client_id, cost, mode) is entered (main.rs 237-243)
CallWithMode(mode, k, cost) ==
    /\ cwm.pc = "idle"
    /\ cwm' = [NoCall EXCEPT !.pc = "check", !.mode = mode, !.client_id = k,
                             !.cost = cost]
    /\ UNCHANGED <<cfgVars, now, backend, fail_open, buckets, sev, notSvc>>

\* limiter.check_limit(client_id, cost).await? and the match on its result
\* (main.rs 245-248, 252-257)
CwmCheck ==
    LET r == take_token(buckets, cwm.client_id, cwm.cost, now)
        d == check_limit(r.res, fail_open)
    IN /\ cwm.pc = "check"
       /\ buckets' = r.buckets
       /\ cwm' = IF d.kind = "Err"
                 THEN [cwm EXCEPT !.pc = "done", !.ret = Err(d.error)]
                 ELSE IF d.kind = "Allowed"
                 THEN [cwm EXCEPT !.pc = "done", !.ret = Ok(TRUE)]
                 ELSE IF cwm.mode = "NonBlocking"
                 THEN [cwm EXCEPT !.pc = "done", !.ret = Ok(FALSE)]
                 ELSE [cwm EXCEPT !.pc = "sleep", !.retry_after = d.retry_after]
       /\ UNCHANGED <<cfgVars, now, backend, fail_open, sev, notSvc>>

SleepUntilNoWait(t, d, late) == t

\* the instant tokio::time::sleep(d) started at t returns: d later, or more
SleepUntil(t, d, late) == t + d + late

\* tokio::time::sleep(retry_after).await returns and the loop goes round
\* (main.rs 251, 255)
CwmWake ==
    /\ cwm.pc = "sleep"
    /\ cwm.sleeps < MaxSleeps
    /\ \E late \in {0, TickMs} : now' = SleepUntil(now, cwm.retry_after, late)
    /\ cwm' = [cwm EXCEPT !.pc = "check", !.sleeps = @ + 1]
    /\ UNCHANGED <<cfgVars, backend, fail_open, buckets, sev, notSvc>>

InitBlocking ==
    /\ capacity \in 1..MaxCapacity
    /\ refill_rate \in 0..MaxRate
    /\ refill_interval = DefaultInterval
    /\ now = 0
    /\ backend \in {"memory", "failing"}
    /\ fail_open \in BOOLEAN
    /\ buckets = [k \in CwmKeys |-> NoBucket]
    /\ ledger = [k \in Keys |-> NoLedger]
    /\ ev = NoEvent
    /\ IdleSvc
    /\ IdleLater
    /\ IdleBatch
    /\ IdleConc
    /\ IdleRedis

NextBlocking ==
    \/ \E k \in CwmKeys, c \in Costs : PriorTake(k, c)
    \/ \E m \in {"Blocking", "NonBlocking"}, k \in CwmKeys, c \in Costs :
           CallWithMode(m, k, c)
    \/ CwmCheck
    \/ CwmWake

\* once called, check_with_mode runs on: its check is made, its sleep ends
SpecBlocking ==
    InitBlocking /\ [][NextBlocking]_vars /\ WF_vars(CwmCheck) /\ WF_vars(CwmWake)

(* ------------------ RedisBackend: processes on one store --------------- *)
InitRedis ==
    /\ IdleExt
    /\ capacity \in 1..MaxCapacity
    /\ refill_rate \in 0..MaxRate
    /\ now = 0
    /\ IdleRedis
    /\ IdleConc
    /\ IdleSeq

NextRedis ==
    \/ \E p \in Procs, k \in StoreKeys, c \in Costs, t \in Instants : RedisTake(p, k, c, t)
    \/ \E p \in Procs, k \in StoreKeys, t \in Instants : RedisGetUsage(p, k, t)
    \/ \E p \in Procs, k \in StoreKeys : RedisReset(p, k)
    \/ \E k \in StoreKeys : Expire(k)
    \/ \E p \in Procs, k \in StoreKeys, op \in {"take_token", "get_usage", "reset"} :
           RedisUnavailable(p, k, op)

SpecRedis == InitRedis /\ [][NextRedis]_vars

(* ------------------------------ claims -------------------------------- *)
RECURSIVE SumLog(_, _)
SumLog(i, j) == IF i > j THEN 0 ELSE admLog[i] + SumLog(i + 1, j)

\* C1: in every window of ticks i..j (W = (j - i) * TickMs / 1000 seconds) the
\* cost admitted is at most capacity + refill_rate * W
RateBound ==
    \A i \in DOMAIN admLog : \A j \in DOMAIN admLog :
        i <= j =>
            SumLog(i, j) * 1000 <= (capacity * 1000) + (refill_rate * (j - i) * TickMs)

\* C3 (its upper half): once C workers have finished T calls check(k, 1) over
\* e = now / 1000 seconds, the admitted count A is at most
\* min(T, capacity + floor(refill_rate * e)) + refill_rate
ConcurrentCount ==
    (\A w \in DOMAIN pc : pc[w] = "idle") =>
        nAdmitted <= Min(calls, capacity + ((refill_rate * now) \div 1000)) + refill_rate

\* C2: in every reachable state of the bucket, whatever the interleaving of
\* try_consume, refill and available_tokens steps, 0 <= tokens <= capacity,
\* and so is every count a thread has loaded (capacity - available, the
\* usage, never underflows)
TokensInRange ==
    /\ tokens \in 0..capacity
    /\ \A w \in DOMAIN pc : pc[w] # "idle" => (capacity - current[w]) \in 0..capacity

\* a refill stores its count while another thread's try_consume is in its loop
\* on a count it loaded earlier
TokensInRangeWitness ==
    /\ tokens = capacity
    /\ \E w \in DOMAIN pc : /\ pc[w] = "load" /\ to_add[w] > 0
                            /\ current[w] + to_add[w] > capacity
    /\ \E w \in DOMAIN pc : pc[w] = "cas" /\ wcost[w] > 0

(* ----------------- claims about the RateLimiter facade ---------------- *)
IsCheck == ev.op = "check_limit"
\* (ev is the call made at the current instant `now`: Tick clears it)
\* the bucket the last call worked on, as get_or_create_bucket handed it over
EvBucket == IF ev.before.present THEN ev.before ELSE NewBucket(now)
\* the bucket map the last call started from
EvMap == [buckets EXCEPT ![ev.key] = ev.before]

\* C5: fail-open over a backend that always fails: every check_limit returns
\* Ok(Allowed), whatever the key, the cost and the calls before it
FailOpenAllows ==
    (IsCheck /\ backend = "failing" /\ fail_open) => ev.result = Allowed

FailOpenWitness ==
    /\ IsCheck /\ backend = "failing" /\ fail_open
    /\ ev.key = "k2" /\ ev.cost = MaxCost /\ now > 0

\* C6: fail-closed over a backend that always fails: every check_limit returns
\* the backend's error unchanged, never Allowed and never Denied
FailClosedPropagates ==
    (IsCheck /\ backend = "failing" /\ ~fail_open) =>
        ev.result = Failed(SimulatedFailure)

FailClosedWitness ==
    /\ IsCheck /\ backend = "failing" /\ ~fail_open
    /\ ev.key = "k2" /\ ev.cost = 0 /\ now > 0

\* C7: with fail_open = true over the in-process backend, a check_limit(k, 1)
\* that follows `capacity` admitted check_limit(k, 1) calls with nothing
\* refilled is Denied, and any check that finds fewer tokens than its cost
\* after refill is Denied, not Allowed
DenialIsNotError ==
    (IsCheck /\ backend = "memory" /\ fail_open) =>
        /\ (/\ ev.cost = 1
            /\ ev.before.present
            /\ ev.led.ones = capacity
            /\ ~ledger[ev.key].refilled) => ev.result = Denied(1000)
        /\ refill(EvBucket, now).tokens < ev.cost => ev.result.kind = "Denied"

DenialWitness ==
    /\ IsCheck /\ backend = "memory" /\ fail_open
    /\ ev.cost = 1 /\ ev.before.present
    /\ ev.led.ones = capacity
    /\ ~ledger[ev.key].refilled
    /\ capacity = MaxCapacity
    /\ ev.result.kind = "Denied"

\* C8: over the in-process backend a check_limit with cost > capacity is
\* Denied in every state, and leaves the bucket as the refill alone left it
OversizeDenied ==
    (IsCheck /\ backend = "memory" /\ ev.cost > capacity) =>
        /\ ev.result.kind = "Denied"
        /\ buckets[ev.key] = refill(EvBucket, now)

OversizeWitness ==
    /\ IsCheck /\ backend = "memory" /\ ev.cost > capacity
    /\ ev.before.present /\ ev.before.tokens < capacity
    /\ buckets[ev.key].tokens = capacity
    /\ ev.result.kind = "Denied"

\* C9: over the in-process backend check_limit(k, 0) is Allowed in every
\* state, usage(k) read at the instant of the call is the same before and
\* after it, and a second check_limit(k, 0) changes nothing more
CostZeroIdempotent ==
    (IsCheck /\ backend = "memory" /\ ev.cost = 0) =>
        /\ ev.result = Allowed
        /\ Memory_get_usage(EvMap, ev.key, now).res
             = Memory_get_usage(buckets, ev.key, now).res
        /\ Memory_take_token(buckets, ev.key, 0, now)
             = [res |-> Ok(TRUE), buckets |-> buckets]

CostZeroWitness ==
    /\ IsCheck /\ backend = "memory" /\ ev.cost = 0
    /\ ev.before.present /\ ev.before.tokens = 0
    /\ buckets[ev.key].tokens = 0
    /\ ev.result = Allowed

\* C10: after MemoryBackend.reset(k), whatever k's bucket was, usage(k) is 0
\* and take(k, capacity) is admitted, at this or any later instant; and
\* take(k, 1) is admitted and leaves usage(k) = 1
ResetRestores ==
    (ev.op = "reset" /\ backend = "memory") =>
        \A i \in TickIdx : \A j \in TickIdx :
            (now <= i * TickMs /\ i <= j) =>
                LET u == Memory_get_usage(buckets, ev.key, i * TickMs)
                    full == Memory_take_token(u.buckets, ev.key, capacity, j * TickMs)
                    one == Memory_take_token(buckets, ev.key, 1, i * TickMs)
                IN /\ u.res = Ok(0)
                   /\ full.res = Ok(TRUE)
                   /\ Memory_take_token(buckets, ev.key, capacity, i * TickMs).res = Ok(TRUE)
                   /\ one.res = Ok(TRUE)
                   /\ Memory_get_usage(one.buckets, ev.key, i * TickMs).res = Ok(1)

ResetWitness ==
    /\ ev.op = "reset" /\ backend = "memory"
    /\ ev.before.present /\ ev.before.tokens = 0
    /\ ev.led.refilled
    /\ now < MaxTicks * TickMs

\* C11: for as long as no refill has added anything to k's bucket since it was
\* created full, take(k, c) is Admitted iff c <= capacity - (sum of the costs
\* admitted so far) and Denied otherwise, and usage(k) is that sum
TokenAccounting ==
    (backend = "memory" /\ ~ledger[ev.key].refilled) =>
        /\ IsCheck =>
              ev.result = (IF ev.cost <= capacity - ev.led.sum
                           THEN Allowed ELSE Denied(1000))
        /\ ev.op = "get_usage" => ev.result = Ok(ev.led.sum)

TokenAccountingWitness ==
    /\ backend = "memory" /\ ~ledger[ev.key].refilled
    /\ IsCheck /\ ev.led.sum > 0 /\ ev.led.sum < capacity
    /\ ev.cost <= capacity
    /\ ev.result.kind = "Denied"
    /\ now > 0

\* C12: when take(k, 1) has just been Denied (the bucket is drained), then for
\* every wait of d ms and every cost c <= capacity with
\* floor(d * refill_rate / 1000) >= c, a take(k, c) made d ms later with
\* nothing done to the bucket in between is Admitted
BurstThenRefill ==
    (IsCheck /\ backend = "memory" /\ ev.cost = 1 /\ ev.result.kind = "Denied") =>
        \A i \in 1..MaxTicks : \A c \in 0..capacity :
            ((i * TickMs * refill_rate) \div 1000 >= c) =>
                Memory_take_token(buckets, ev.key, c, now + (i * TickMs)).res = Ok(TRUE)

BurstThenRefillWitness ==
    /\ IsCheck /\ backend = "memory" /\ ev.cost = 1 /\ ev.result.kind = "Denied"
    /\ buckets[ev.key].last_refill < now
    /\ \E i \in 1..MaxTicks : (i * TickMs * refill_rate) \div 1000 >= 1

(* ---------------- claims about the BatchingBackend -------------------- *)
IsBatchCheck == bev.op = "check_limit"

\* C13: when the LocalBatch of k exists but holds less than the cost, and the
\* in-process backend underneath still holds batch_size tokens, take(k, 1)
\* reserves batch_size tokens once, is Admitted, and leaves batch_size - 1 in
\* the LocalBatch
BatchRenewal ==
    (/\ IsBatchCheck /\ backend = "memory" /\ bev.cost = 1
     /\ bev.lc.present /\ bev.lc.available < 1
     /\ bev.before.present /\ refill(bev.before, now).tokens >= batch_size) =>
        /\ bev.res = Ok(TRUE)
        /\ bev.takes = batch_size
        /\ \A k \in BatchKeys : local_cache[k].available = batch_size - 1

\* C14: a take through the wrapper during which the backend underneath refused
\* a token returns Denied, and the wrapper returns an error only when the
\* backend underneath returned one, and then that very error
NoSynthesizedError ==
    IsBatchCheck =>
        /\ bev.denied => bev.res = Ok(FALSE)
        /\ bev.res.kind = "Err" =>
              (backend = "failing" /\ bev.res = Err(SimulatedFailure))

\* C15: over a backend that never fails, the cost admitted through the
\* BatchingBackend since the start (a window of now / 1000 seconds) is at most
\* capacity + refill_rate * W + batch_size
BatchRateBound ==
    backend = "memory" =>
        blog.admitted * 1000 <= ((capacity + batch_size) * 1000) + (refill_rate * now)

\* C16: over a backend that never fails, a take of cost > batch_size through
\* the wrapper is Denied: neither Admitted nor an error
OversizeBatchDenied ==
    (IsBatchCheck /\ backend = "memory" /\ bev.cost > batch_size) =>
        bev.res = Ok(FALSE)

(* ------------------- claims about guardian-service ------------------- *)
\* C17: every Denied that check_limit returns carries retry_after equal to the
\* larger of 1 second and the configured refill_interval
RetryAfterHint ==
    (sev.op = "check_limit" /\ sev.result.kind = "Denied") =>
        sev.result.retry_after = Max(1000, refill_interval)

\* C18: requests with an empty client_id and requests with client_id
\* "anonymous" draw on one bucket: after any CheckLimit request the usage
\* read under either id is the same
EmptyIdIsAnonymous ==
    (sev.op = "check_limit" /\ backend = "memory") =>
        Memory_get_usage(buckets, "", now).res
          = Memory_get_usage(buckets, "anonymous", now).res

\* C21: after GuardianClient.reset_limit(client_id) has returned Ok, the
\* service's usage(client_id) is 0 and a CheckLimit of cost = capacity is
\* allowed, whatever was consumed before
ResetLimitResets ==
    (/\ sev.op = "reset_limit" /\ backend = "memory"
     /\ Client_reset_limit(sev.reply) = Ok(TRUE)) =>
        /\ Memory_get_usage(buckets, sev.client_id, now).res = Ok(0)
        /\ check_limit(Memory_take_token(buckets, sev.client_id,
                                         RequestCost(capacity), now).res,
                       fail_open) = Allowed

\* C19: a request without client-id metadata is checked under "anonymous"
\* with cost 1; every request is forwarded iff the facade returned Allowed,
\* rejected as resource-exhausted iff it returned Denied, and rejected as
\* internal only when it returned an error
InterceptorChecks ==
    sev.op = "intercept" =>
        /\ ~sev.header.present =>
              LET r == Memory_take_token(sev.before, "anonymous", 1, now)
              IN /\ buckets = r.buckets
                 /\ sev.reply.status =
                      (IF r.res.value THEN "forward" ELSE "resource_exhausted")
        /\ sev.reply.status = "forward" <=> sev.result = Allowed
        /\ sev.reply.status = "resource_exhausted" <=> sev.result.kind = "Denied"
        /\ sev.reply.status = "internal" => sev.result.kind = "Err"

InterceptorChecksWitness ==
    /\ sev.op = "intercept" /\ ~sev.header.present
    /\ sev.reply.status = "resource_exhausted"
    /\ buckets["alice"].present /\ buckets["alice"].tokens > 0
    /\ now > 0

\* C20: check_with_mode(.., Blocking) over the in-process backend with
\* refill_rate >= 1 and 1 <= cost <= capacity, nobody else taking from the
\* key, eventually returns Ok(true); in Blocking mode it never returns
\* Ok(false), and it returns check_limit's error without another round
BlockingTerminates ==
    /\ (/\ cwm.pc = "check" /\ cwm.mode = "Blocking" /\ backend = "memory"
        /\ refill_rate >= 1 /\ cwm.cost \in 1..capacity)
          ~> (cwm.pc = "done" /\ cwm.ret = Ok(TRUE))
    /\ [](cwm.mode = "Blocking" => cwm.ret # Ok(FALSE))
    /\ []((cwm.mode = "Blocking" /\ backend = "failing" /\ ~fail_open) =>
            /\ cwm.pc # "sleep"
            /\ cwm.pc = "done" => cwm.ret = Err(SimulatedFailure))

BlockingTerminatesWitness ==
    /\ cwm.pc = "done" /\ cwm.mode = "Blocking" /\ backend = "memory"
    /\ refill_rate >= 1 /\ cwm.cost \in 1..capacity
    /\ cwm.sleeps >= 2
    /\ cwm.ret = Ok(TRUE)

(* ------------------- claims about the Redis backend ------------------- *)
RECURSIVE SumOver(_, _)
SumOver(f, S) ==
    IF S = {} THEN 0
    ELSE LET x == CHOOSE y \in S : TRUE IN f[x] + SumOver(f, S \ {x})

\* C4: with refill_rate = 0, while a key has seen only take(k, 1) calls (no
\* reset, no expiry), the admitted results summed over all processes are
\* exactly min(capacity, number of calls)
DistributedAtomicity ==
    \A k \in StoreKeys :
        (refill_rate = 0 /\ rlog[k].clean) =>
            SumOver(rlog[k].admitted, Procs) = Min(capacity, rlog[k].calls)

DistributedAtomicityWitness ==
    /\ refill_rate = 0
    /\ capacity = MaxCapacity
    /\ rlog["k1"].clean
    /\ rlog["k1"].calls > capacity
    /\ \A p \in Procs : rlog["k1"].admitted[p] > 0
    /\ rev.op = "take_token" /\ rev.key = "k1" /\ rev.result = Ok(FALSE)
    /\ rev.at < rev.before.last_refill

\* C22: whatever the order of the now values the callers supply, the tokens
\* field stored at a key is within 0..capacity, and the usage the get-usage
\* script reports for it is at most capacity
RedisTokensInRange ==
    \A k \in StoreKeys :
        store[k].present =>
            /\ store[k].tokens \in 0..capacity
            /\ \A t \in Instants :
                  get_usage_script(store[k], capacity, refill_rate, t) <= capacity

(* ---------------- CachedRedisBackend over the RedisBackend -------------- *)
MaxTtlTicks == 2

notCache == <<concVars, seqVars, batchVars, svcVars, wrapVars, arcVars, retryVars, rlog, rev, clog>>

get_cached_stale(c, k, t) ==
    IF c[k].present
    THEN [some |-> TRUE, tokens |-> c[k].tokens]
    ELSE [some |-> FALSE, tokens |-> 0]

\* CachedRedisBackend::get_cached (redis lib.rs 265-275): the entry's tokens
\* while expires_at is still ahead of the clock
get_cached(c, k, t) ==
    IF c[k].present /\ c[k].expires_at > t
    THEN [some |-> TRUE, tokens |-> c[k].tokens]
    ELSE [some |-> FALSE, tokens |-> 0]

set_cache_plus_one(c, k, n, t, ttl, filled) ==
    [c EXCEPT ![k] = [present |-> TRUE, tokens |-> n + 1, expires_at |-> t + ttl,
                      filled_at |-> filled]]

\* CachedRedisBackend::set_cache (redis lib.rs 277-286); filled_at records the
\* instant of the store call the entry descends from
set_cache(c, k, n, t, ttl, filled) ==
    [c EXCEPT ![k] = [present |-> TRUE, tokens |-> n, expires_at |-> t + ttl,
                      filled_at |-> filled]]

\* CachedRedisBackend::take_token (redis lib.rs 290-306)
CachedTake(k, cost) ==
    LET hit == get_cached(cache, k, now)
        r == take_token_script(store[k], capacity, refill_rate, cost, now)
    IN IF hit.some /\ hit.tokens >= cost
       THEN /\ cache' = set_cache(cache, k, hit.tokens - cost, now, cache_ttl,
                                  cache[k].filled_at)
            /\ cev' = [op |-> "take_token", cost |-> cost, res |-> Ok(TRUE),
                       from_cache |-> TRUE, entry |-> cache[k], stored |-> store[k],
                       store_takes |-> 0]
            /\ UNCHANGED <<cfgVars, now, cache_ttl, store, notCache>>
       ELSE /\ store' = [store EXCEPT ![k] = r.rec]
            /\ cache' = IF r.ret = 1
                        THEN set_cache(cache, k, capacity - cost, now, cache_ttl, now)
                        ELSE cache
            /\ cev' = [op |-> "take_token", cost |-> cost, res |-> Ok(r.ret = 1),
                       from_cache |-> FALSE, entry |-> cache[k], stored |-> store[k],
                       store_takes |-> 1]
            /\ UNCHANGED <<cfgVars, now, cache_ttl, notCache>>

\* take_token when the cache does not answer and the store call fails: the `?`
\* returns the error before set_cache (redis lib.rs 299)
CachedTakeUnavailable(k, cost) ==
    LET hit == get_cached(cache, k, now)
    IN /\ ~(hit.some /\ hit.tokens >= cost)
       /\ cev' = [op |-> "take_token", cost |-> cost, res |-> Err("StorageError"),
                  from_cache |-> FALSE, entry |-> cache[k], stored |-> store[k],
                  store_takes |-> 1]
       /\ UNCHANGED <<cfgVars, now, cache_ttl, cache, store, notCache>>

\* CachedRedisBackend::get_usage (redis lib.rs 308-310)
CachedGetUsage(k) ==
    /\ cev' = [op |-> "get_usage", cost |-> 0,
               res |-> Ok(get_usage_script(store[k], capacity, refill_rate, now)),
               from_cache |-> FALSE, entry |-> cache[k], stored |-> store[k],
               store_takes |-> 0]
    /\ UNCHANGED <<cfgVars, now, cache_ttl, cache, store, notCache>>

\* CachedRedisBackend::reset (redis lib.rs 312-318)
CachedReset(k) ==
    /\ cache' = [cache EXCEPT ![k] = NoEntry]
    /\ store' = [store EXCEPT ![k] = NoRecord]
    /\ cev' = [op |-> "reset", cost |-> 0, res |-> Ok(TRUE), from_cache |-> FALSE,
               entry |-> cache[k], stored |-> store[k], store_takes |-> 0]
    /\ UNCHANGED <<cfgVars, now, cache_ttl, notCache>>

\* the clock moves on between two calls
CacheTick ==
    /\ now < MaxTicks * TickMs
    /\ now' = now + TickMs
    /\ cev' = NoCacheEvent
    /\ UNCHANGED <<cfgVars, cache_ttl, cache, store, notCache>>

InitCached ==
    /\ refill_interval = DefaultInterval
    /\ capacity \in 1..MaxCapacity
    /\ refill_rate \in 0..MaxRate
    /\ cache_ttl \in {i * TickMs : i \in 1..MaxTtlTicks}
    /\ now = 0
    /\ cache = [k \in StoreKeys |-> NoEntry]
    /\ cev = NoCacheEvent
    /\ clog = <<>>
    /\ IdleWrap
    /\ IdleArc
    /\ IdleRetry
    /\ IdleBatch
    /\ IdleSvc
    /\ IdleRedis
    /\ IdleConc
    /\ IdleSeq

NextCached ==
    \/ \E k \in StoreKeys, c \in Costs : CachedTake(k, c)
    \/ \E k \in StoreKeys, c \in Costs : CachedTakeUnavailable(k, c)
    \/ \E k \in StoreKeys : CachedGetUsage(k)
    \/ \E k \in StoreKeys : CachedReset(k)
    \/ CacheTick

SpecCached == InitCached /\ [][NextCached]_vars

\* C23: an admission served from the cache happens less than cache_ttl after the
\* store call that filled the entry, and an entry that old is not used
CacheStaleness ==
    /\ (cev.op = "take_token" /\ cev.from_cache) =>
           now - cev.entry.filled_at < cache_ttl
    /\ (cev.op = "take_token" /\ cev.entry.present
          /\ now - cev.entry.filled_at >= cache_ttl) => ~cev.from_cache

(* -------- BatchingBackend wrappers over one backend, step by step ------- *)
MaxWrapCalls == 3
\* each task may have a wrapper of its own
Wrappers == 1..NumWorkers

notWrap == <<bucketVars, wop, wnow, to_add, nAdmitted, admLog, backend, fail_open,
             ledger, ev, redisVars, batchVars, svcVars, cacheVars, arcVars, retryVars, wrapper>>

\* the LocalBatch a worker's wrapper holds for the key
BatchOf(w, k) == wcache[wrapper[w]][k]

\* a guard of the table's RwLock comes into being: local_cache.read() or
\* .write() (lib.rs 216, 237, 258), cache.read() or .write() (redis lib.rs
\* 266, 277, 314)
Acquire(held, w, mode) == [held EXCEPT ![w] = mode]

ReleaseNever(held, w) == held

\* the guard goes out of scope at the end of its block (lib.rs 231, 249, 260;
\* redis lib.rs 274, 285, 316)
Release(held, w) == [held EXCEPT ![w] = "none"]

\* some task holds local_cache's read lock of wrapper wr: it is between the load
\* and the compare_exchange of the fast path (lib.rs 216-231)
ReadLocked(wr) == \E w \in Workers : wrapper[w] = wr /\ tlock[w] = "read"

\* some task holds local_cache's write lock of wrapper wr (lib.rs 237-249, 258-260)
WriteLocked(wr) == \E w \in Workers : wrapper[w] = wr /\ tlock[w] = "write"

\* a task enters BatchingBackend::take_token or ::reset (lib.rs 213, 256)
WrapCall(w, op, cost) ==
    /\ w \in DOMAIN wrapper
    /\ pc[w] \in {"idle", "dropped"}
    /\ calls < MaxWrapCalls
    /\ calls' = calls + 1
    /\ wcost' = [wcost EXCEPT ![w] = IF op = "take_token" THEN cost ELSE 0]
    /\ pc' = [pc EXCEPT ![w] = IF op = "take_token" THEN "fast" ELSE "reset_cache"]
    /\ UNCHANGED <<cfgVars, now, current, buckets, wcache, left, taken, tlock, notWrap>>

\* the fast path takes the read lock, looks the key up and loads `available`
\* (lib.rs 216-219)
FastLoad(w, k) ==
    /\ pc[w] = "fast"
    /\ ~WriteLocked(wrapper[w])
    /\ IF BatchOf(w, k).present /\ BatchOf(w, k).available >= wcost[w]
       THEN /\ current' = [current EXCEPT ![w] = BatchOf(w, k).available]
            /\ pc' = [pc EXCEPT ![w] = "cas"]
            /\ left' = left
            /\ tlock' = Acquire(tlock, w, "read")
       ELSE /\ pc' = [pc EXCEPT ![w] = "reserve"]
            /\ left' = [left EXCEPT ![w] = batch_size]
            /\ current' = current
            /\ tlock' = Release(Acquire(tlock, w, "read"), w)
    /\ UNCHANGED <<cfgVars, now, wcost, calls, buckets, wcache, taken, notWrap>>

\* compare_exchange(current, current - cost) on `available` (lib.rs 220-229):
\* Ok returns Ok(true); Err falls through to reserve_batch
FastCas(w, k) ==
    /\ pc[w] = "cas"
    /\ IF BatchOf(w, k).available = current[w]
       THEN /\ wcache' = [wcache EXCEPT ![wrapper[w]][k].available =
                                            current[w] - wcost[w]]
            /\ pc' = [pc EXCEPT ![w] = "idle"]
            /\ left' = left
       ELSE /\ pc' = [pc EXCEPT ![w] = "reserve"]
            /\ left' = [left EXCEPT ![w] = batch_size]
            /\ wcache' = wcache
    /\ tlock' = Release(tlock, w)
    /\ UNCHANGED <<cfgVars, now, wcost, current, calls, buckets, taken, notWrap>>

\* one iteration of reserve_batch's loop (lib.rs 202-206): take_token(key, 1)
\* on the backend; a refusal returns LimitExceeded out of take_token
ReserveStep(w, k) ==
    LET r == take_token(buckets, k, 1, now)
    IN /\ pc[w] = "reserve"
       /\ buckets' = r.buckets
       /\ IF r.res.kind = "Ok" /\ r.res.value
          THEN /\ taken' = [taken EXCEPT ![wrapper[w]] = @ + 1]
               /\ left' = [left EXCEPT ![w] = @ - 1]
               /\ pc' = [pc EXCEPT ![w] = IF left[w] = 1 THEN "insert" ELSE "reserve"]
          ELSE /\ pc' = [pc EXCEPT ![w] = "idle"]
               /\ left' = [left EXCEPT ![w] = 0]
               /\ taken' = taken
       /\ UNCHANGED <<cfgVars, now, wcost, current, calls, wcache, tlock, notWrap>>

\* the future of take_token is dropped while it waits for the backend inside
\* reserve_batch (lib.rs 204, 234): its locals go, nothing else runs
Cancel(w) ==
    /\ pc[w] = "reserve"
    /\ pc' = [pc EXCEPT ![w] = "dropped"]
    /\ left' = [left EXCEPT ![w] = 0]
    /\ UNCHANGED <<cfgVars, now, wcost, current, calls, buckets, wcache, taken, tlock,
                   notWrap>>

\* the slow path's section under the write lock (lib.rs 237-249)
WrapInsert(w, k) ==
    LET lc1 == or_insert_with(wcache[wrapper[w]], k, batch_size)
    IN /\ pc[w] = "insert"
       /\ ~ReadLocked(wrapper[w])
       /\ ~WriteLocked(wrapper[w])
       /\ wcache' = [wcache EXCEPT ![wrapper[w]] =
                        IF lc1[k].available >= wcost[w]
                        THEN [lc1 EXCEPT ![k].available = @ - wcost[w]]
                        ELSE lc1]
       /\ pc' = [pc EXCEPT ![w] = "idle"]
       /\ tlock' = Release(Acquire(tlock, w, "write"), w)
       /\ UNCHANGED <<cfgVars, now, wcost, current, calls, buckets, left, taken, notWrap>>

\* BatchingBackend::reset, its section under the write lock (lib.rs 257-260)
WrapResetCache(w, k) ==
    /\ pc[w] = "reset_cache"
    /\ ~ReadLocked(wrapper[w])
    /\ ~WriteLocked(wrapper[w])
    /\ wcache' = [wcache EXCEPT ![wrapper[w]][k] = NoBatch]
    /\ pc' = [pc EXCEPT ![w] = "reset_backend"]
    /\ tlock' = Release(Acquire(tlock, w, "write"), w)
    /\ UNCHANGED <<cfgVars, now, wcost, current, calls, buckets, left, taken, notWrap>>

\* BatchingBackend::reset, the backend's reset (lib.rs 261)
WrapResetBackend(w, k) ==
    /\ pc[w] = "reset_backend"
    /\ buckets' = reset(buckets, k).buckets
    /\ pc' = [pc EXCEPT ![w] = "idle"]
    /\ UNCHANGED <<cfgVars, now, wcost, current, calls, wcache, left, taken, tlock,
                   notWrap>>

\* BatchingBackend::new(backend, batch_size) once or several times over one
\* MemoryBackend (lib.rs 192-198): the tasks share one wrapper, or each has
\* its own.  The calls of a run all fall at one instant, so the refill rate
\* plays no part.
InitWrap ==
    /\ refill_interval = DefaultInterval
    /\ capacity = MaxCapacity
    /\ refill_rate = MaxRate
    /\ now = 0
    /\ backend = "memory"
    /\ fail_open = FALSE
    /\ buckets = [k \in BatchKeys |-> NoBucket]
    /\ ledger = [k \in Keys |-> NoLedger]
    /\ ev = NoEvent
    /\ batch_size \in 1..MaxBatch
    /\ local_cache = [k \in BatchKeys |-> NoBatch]
    /\ bev = NoBatchEvent
    /\ blog = NoBatchLog
    /\ wrapper \in {[w \in Workers |-> 1], [w \in Workers |-> w]}
    /\ wcache = [wr \in Wrappers |-> [k \in BatchKeys |-> NoBatch]]
    /\ left = [w \in Workers |-> 0]
    /\ taken = [wr \in Wrappers |-> 0]
    /\ tlock = [w \in Workers |-> "none"]
    /\ pc = [w \in Workers |-> "idle"]
    /\ wcost = [w \in Workers |-> 0]
    /\ current = [w \in Workers |-> 0]
    /\ wop = <<>>
    /\ wnow = <<>>
    /\ to_add = <<>>
    /\ tokens = 0
    /\ last_refill = 0
    /\ lock = 0
    /\ present = FALSE
    /\ calls = 0
    /\ nAdmitted = 0
    /\ admLog = <<>>
    /\ IdleCache
    /\ IdleArc
    /\ IdleRetry
    /\ IdleSvc
    /\ IdleRedis

NextWrap ==
    \/ \E w \in Workers, op \in {"take_token", "reset"}, c \in Costs : WrapCall(w, op, c)
    \/ \E w \in Workers, k \in BatchKeys : FastLoad(w, k)
    \/ \E w \in Workers, k \in BatchKeys : FastCas(w, k)
    \/ \E w \in Workers, k \in BatchKeys : ReserveStep(w, k)
    \/ \E w \in Workers : Cancel(w)
    \/ \E w \in Workers, k \in BatchKeys : WrapInsert(w, k)
    \/ \E w \in Workers, k \in BatchKeys : WrapResetCache(w, k)
    \/ \E w \in Workers, k \in BatchKeys : WrapResetBackend(w, k)

SpecWrap == InitWrap /\ [][NextWrap]_vars

RECURSIVE SumAvailable(_, _)
SumAvailable(n, k) ==
    IF n = 0 THEN 0
    ELSE (IF wcache[n][k].present THEN wcache[n][k].available ELSE 0)
         + SumAvailable(n - 1, k)

RECURSIVE SumTaken(_)
SumTaken(n) == IF n = 0 THEN 0 ELSE taken[n] + SumTaken(n - 1)

\* C24: invariant I4: the LocalBatch.available of the wrappers for the key add up
\* to at most the tokens the wrappers have taken from the backend for it
BatchWithinReserved ==
    \A k \in BatchKeys : SumAvailable(NumWorkers, k) <= SumTaken(NumWorkers)

\* a task has reserved its batch and finds, about to insert it, the LocalBatch
\* another task of the same wrapper inserted meanwhile
BatchWithinReservedWitness ==
    /\ \E w \in Workers : pc[w] = "insert" /\ BatchOf(w, "k1").present
    /\ SumAvailable(NumWorkers, "k1") < SumTaken(NumWorkers)

(* ------------- one TokenBucket, one caller, a clock that jumps ---------- *)
RefillStepMs == 250
MaxRefillSteps == 8

IsBucketOp == ev.op \in {"try_consume", "available_tokens"}

\* TokenBucket::try_consume(cost) on the bucket (lib.rs 64-85)
BucketTryConsume(k, cost) ==
    LET r == try_consume(buckets[k], cost, now)
    IN /\ buckets' = [buckets EXCEPT ![k] = r.bucket]
       /\ ev' = [op |-> "try_consume", key |-> k, cost |-> cost, result |-> Ok(r.ok),
                 before |-> buckets[k], led |-> NoLedger]
       /\ UNCHANGED <<cfgVars, now, backend, fail_open, ledger, notSeq>>

\* TokenBucket::available_tokens() on the bucket (lib.rs 104-107)
BucketAvailable(k) ==
    LET a == available_tokens(buckets[k], now)
    IN /\ buckets' = [buckets EXCEPT ![k] = a.bucket]
       /\ ev' = [op |-> "available_tokens", key |-> k, cost |-> 0,
                 result |-> Ok(a.value), before |-> buckets[k], led |-> NoLedger]
       /\ UNCHANGED <<cfgVars, now, backend, fail_open, ledger, notSeq>>

\* SystemTime::now() reads later than before
ClockForward ==
    /\ now < MaxRefillSteps * RefillStepMs
    /\ now' = now + RefillStepMs
    /\ ev' = NoEvent
    /\ UNCHANGED <<cfgVars, backend, fail_open, buckets, ledger, notSeq>>

\* SystemTime is not monotonic: the clock is set back
ClockBack ==
    /\ now >= RefillStepMs
    /\ now' = now - RefillStepMs
    /\ ev' = NoEvent
    /\ UNCHANGED <<cfgVars, backend, fail_open, buckets, ledger, notSeq>>

\* TokenBucket::new(config) (lib.rs 55-62)
InitRefill ==
    /\ IdleExt
    /\ capacity \in 1..MaxCapacity
    /\ refill_rate \in 0..MaxRate
    /\ now = 0
    /\ backend = "memory"
    /\ fail_open = FALSE
    /\ buckets = [k \in Keys |-> IF k = "k1" THEN NewBucket(0) ELSE NoBucket]
    /\ ledger = [k \in Keys |-> NoLedger]
    /\ ev = NoEvent
    /\ IdleConc
    /\ IdleRedis

NextRefill ==
    \/ \E c \in Costs : BucketTryConsume("k1", c)
    \/ BucketAvailable("k1")
    \/ ClockForward
    \/ ClockBack

SpecRefill == InitRefill /\ [][NextRefill]_vars

\* the token count right after the refill step of the last operation
PostRefill ==
    IF ev.op = "available_tokens" THEN ev.result.value
    ELSE buckets[ev.key].tokens + (IF ev.result.value THEN ev.cost ELSE 0)

\* C25: a refill after s seconds and m ms adds floor((1000 s + m) r / 1000)
\* tokens up to the capacity, and the code's s r + floor(m r / 1000) is that value
RefillAmount ==
    (IsBucketOp /\ now >= ev.before.last_refill) =>
        LET e == now - ev.before.last_refill
            ref == (e * refill_rate) \div 1000
        IN /\ TokensToAdd(e, refill_rate) = ref
           /\ PostRefill = Min(capacity, ev.before.tokens + ref)

\* a refill over more than a second with a millisecond part that yields a token
\* of its own, into a bucket with room for it
RefillAmountWitness ==
    /\ IsBucketOp
    /\ now - ev.before.last_refill > 1000
    /\ (((now - ev.before.last_refill) % 1000) * refill_rate) \div 1000 >= 1
    /\ PostRefill > ev.before.tokens

\* C26: an operation that reads a clock earlier than last_refill leaves tokens and
\* last_refill to the refill step as they were and decides on that token count
ClockRegression ==
    (IsBucketOp /\ now < ev.before.last_refill) =>
        /\ buckets[ev.key].last_refill = ev.before.last_refill
        /\ PostRefill = ev.before.tokens
        /\ ev.op = "try_consume" => ev.result.value = (ev.before.tokens >= ev.cost)

\* a consume under a clock set back far enough that the rate would have yielded
\* a token, on a bucket that is not full
ClockRegressionWitness ==
    /\ ev.op = "try_consume"
    /\ now < ev.before.last_refill
    /\ ((ev.before.last_refill - now) * refill_rate) \div 1000 >= 1
    /\ ev.before.tokens < capacity

\* C27: after an operation with non-negative elapsed time last_refill is the
\* instant the operation read, also when nothing was added
LastRefillIsNow ==
    (IsBucketOp /\ now >= ev.before.last_refill) => buckets[ev.key].last_refill = now

\* C28: tokens goes down only in the step of a consume that returns Ok, and then by
\* its cost; a consume that returns the error leaves tokens alone; the store
\* of a refill never lowers tokens, whatever the other threads did meanwhile
TokenMonotonicity ==
    [][/\ tokens' < tokens =>
            \E w \in Workers :
                /\ pc[w] = "cas" /\ pc'[w] = "idle"
                /\ ~Insufficient(current[w], wcost[w])
                /\ nAdmitted' = nAdmitted + 1
                /\ tokens' = tokens - wcost[w]
       /\ \A w \in Workers :
            (pc[w] = "cas" /\ pc'[w] = "idle" /\ nAdmitted' = nAdmitted) =>
                tokens' = tokens
       /\ \A w \in Workers :
            (pc[w] = "store" /\ pc'[w] = "load") => tokens' >= tokens]_vars

\* a thread holds the refill lock with the tokens it loaded, and a consume of
\* another thread has lowered tokens since
TokenMonotonicityWitness ==
    /\ nAdmitted >= 1
    /\ \E w \in Workers : pc[w] = "store" /\ tokens < current[w]

(* ------ MemoryBackend.buckets: get_or_create_bucket, step by step ------- *)
notArc == <<bucketVars, wnow, current, to_add, admLog, seqVars, redisVars, batchVars,
            svcVars, cacheVars, wrapVars, retryVars>>

EntryInsertAlways(slot, fresh) == fresh

\* buckets.entry(key).or_insert_with(..) (lib.rs 146-149): the allocation the
\* map holds for the key afterwards, `fresh` only when the key had none
EntryOrInsert(slot, fresh) == IF slot # 0 THEN slot ELSE fresh

\* a worker enters MemoryBackend::take_token, ::get_usage or ::reset
\* (lib.rs 155, 164, 169)
ArcCall(w, op, cost) ==
    /\ pc[w] = "idle"
    /\ calls < MaxCalls
    /\ calls' = calls + 1
    /\ wop' = [wop EXCEPT ![w] = op]
    /\ wcost' = [wcost EXCEPT ![w] = IF op = "take_token" THEN cost ELSE 0]
    /\ pc' = [pc EXCEPT ![w] = IF op = "reset" THEN "remove" ELSE "lookup"]
    /\ UNCHANGED <<cfgVars, now, nAdmitted, arcVars, notArc>>

\* get_or_create_bucket under the read lock (lib.rs 139-143)
Lookup(w) ==
    /\ pc[w] = "lookup"
    /\ IF in_map # 0
       THEN /\ handle' = [handle EXCEPT ![w] = in_map]
            /\ pc' = [pc EXCEPT ![w] = "use"]
       ELSE /\ pc' = [pc EXCEPT ![w] = "entry"]
            /\ handle' = handle
    /\ UNCHANGED <<cfgVars, now, wop, wcost, calls, nAdmitted, arcs, in_map, removed,
                   notArc>>

\* get_or_create_bucket under the write lock (lib.rs 145-149)
Entry(w) ==
    LET id == EntryOrInsert(in_map, Len(arcs) + 1)
    IN /\ pc[w] = "entry"
       /\ arcs' = IF id > Len(arcs) THEN Append(arcs, NewBucket(now)) ELSE arcs
       /\ in_map' = id
       /\ handle' = [handle EXCEPT ![w] = id]
       /\ pc' = [pc EXCEPT ![w] = "use"]
       /\ UNCHANGED <<cfgVars, now, wop, wcost, calls, nAdmitted, removed, notArc>>

\* bucket.try_consume(cost) or bucket.available_tokens() on the Arc the worker
\* holds, then the Arc is dropped (lib.rs 157, 166)
Use(w) ==
    LET r == try_consume(arcs[handle[w]], wcost[w], now)
    IN /\ pc[w] = "use"
       /\ IF wop[w] = "take_token"
          THEN /\ arcs' = [arcs EXCEPT ![handle[w]] = r.bucket]
               /\ nAdmitted' = nAdmitted + (IF r.ok THEN 1 ELSE 0)
          ELSE /\ arcs' = [arcs EXCEPT ![handle[w]] = available_tokens(@, now).bucket]
               /\ nAdmitted' = nAdmitted
       /\ handle' = [handle EXCEPT ![w] = 0]
       /\ pc' = [pc EXCEPT ![w] = "idle"]
       /\ UNCHANGED <<cfgVars, now, wop, wcost, calls, in_map, removed, notArc>>

\* MemoryBackend::reset under the write lock (lib.rs 169-173)
Remove(w) ==
    /\ pc[w] = "remove"
    /\ in_map' = 0
    /\ removed' = removed + 1
    /\ pc' = [pc EXCEPT ![w] = "idle"]
    /\ UNCHANGED <<cfgVars, now, wop, wcost, calls, nAdmitted, arcs, handle, notArc>>

\* MemoryBackend::new(config) (lib.rs 131-136)
InitArc ==
    /\ refill_interval = DefaultInterval
    /\ IdleBatch
    /\ IdleSvc
    /\ IdleCache
    /\ IdleWrap
    /\ IdleRetry
    /\ arcs = <<>>
    /\ in_map = 0
    /\ handle = [w \in Workers |-> 0]
    /\ removed = 0
    /\ capacity \in 1..MaxCapacity
    /\ refill_rate \in 0..MaxRate
    /\ now = 0
    /\ tokens = 0
    /\ last_refill = 0
    /\ lock = 0
    /\ present = FALSE
    /\ pc = [w \in Workers |-> "idle"]
    /\ wop = [w \in Workers |-> "take_token"]
    /\ wcost = [w \in Workers |-> 0]
    /\ wnow = <<>>
    /\ current = <<>>
    /\ to_add = <<>>
    /\ calls = 0
    /\ nAdmitted = 0
    /\ admLog = <<>>
    /\ IdleSeq
    /\ IdleRedis

NextArc ==
    \/ \E w \in Workers, op \in {"take_token", "get_usage", "reset"}, c \in Costs :
           ArcCall(w, op, c)
    \/ \E w \in Workers : Lookup(w)
    \/ \E w \in Workers : Entry(w)
    \/ \E w \in Workers : Use(w)
    \/ \E w \in Workers : Remove(w)

SpecArc == InitArc /\ [][NextArc]_vars

\* C29: until the key is reset at most one bucket is ever allocated for it, the
\* map holds it, and every worker that holds a bucket holds that one; a worker
\* only ever operates on a bucket that was put into the map
OneBucketPerKey ==
    /\ removed = 0 =>
          /\ Len(arcs) <= 1
          /\ \A w \in Workers : handle[w] # 0 => handle[w] = in_map
    /\ Len(arcs) <= removed + 1
    /\ in_map # 0 => in_map = Len(arcs)
    /\ \A w \in Workers : pc[w] = "use" => handle[w] \in 1..Len(arcs)

\* a worker that found no bucket under the read lock reaches the write lock
\* after another worker has inserted one and holds it
OneBucketPerKeyWitness ==
    /\ removed = 0
    /\ \E w1, w2 \in Workers :
          /\ w1 # w2
          /\ pc[w1] = "entry"
          /\ in_map # 0
          /\ pc[w2] = "use" /\ handle[w2] = in_map

\* C30: a take on a key the store does not hold is decided on a full bucket at the
\* caller's now and writes what is left with last_refill = now; reset and expiry
\* delete the record, so the next take is decided on a full bucket
FreshStart ==
    /\ (rev.op = "take_token" /\ rev.result.kind = "Ok" /\ ~rev.before.present) =>
          /\ rev.result = Ok(rev.cost <= capacity)
          /\ store[rev.key] =
                [present |-> TRUE,
                 tokens |-> IF rev.cost <= capacity THEN capacity - rev.cost
                            ELSE capacity,
                 last_refill |-> rev.at]
    /\ (rev.op \in {"reset", "expire"} /\ rev.result.kind = "Ok") =>
          /\ store[rev.key] = NoRecord
          /\ \A t \in Instants, c \in Costs :
                take_token_script(store[rev.key], capacity, refill_rate, c, t).ret
                    = (IF c <= capacity THEN 1 ELSE 0)

\* a take of the whole capacity is admitted on a key that a reset or an expiry
\* removed after earlier takes
FreshStartWitness ==
    /\ rev.op = "take_token" /\ rev.result = Ok(TRUE)
    /\ ~rev.before.present
    /\ rev.cost = capacity
    /\ rlog[rev.key].calls >= 2
    /\ ~rlog[rev.key].clean

FreshEntry == cev.entry.present /\ cev.entry.expires_at > now

\* C34: a take that finds a fresh entry with at least cost tokens is admitted,
\* leaves the entry with those tokens less the cost, and does not go to the store
CacheHit ==
    (cev.op = "take_token" /\ FreshEntry /\ cev.entry.tokens >= cev.cost) =>
        /\ cev.res = Ok(TRUE)
        /\ cache["k1"].present
        /\ cache["k1"].tokens = cev.entry.tokens - cev.cost
        /\ cev.store_takes = 0
        /\ store["k1"] = cev.stored

\* a take with a cost is served by an entry although the store would refuse it
CacheHitWitness ==
    /\ cev.op = "take_token" /\ FreshEntry
    /\ cev.cost >= 1 /\ cev.entry.tokens >= cev.cost
    /\ cev.stored.present /\ cev.stored.tokens < cev.cost

\* C35: a take that finds no fresh entry, or one with fewer than cost tokens,
\* makes one take on the store; admitted, it sets the entry to capacity - cost;
\* refused or failed, it returns just that and leaves the cache as it was
CacheMiss ==
    (cev.op = "take_token" /\ ~(FreshEntry /\ cev.entry.tokens >= cev.cost)) =>
        /\ cev.store_takes = 1
        /\ ~cev.from_cache
        /\ cev.res = Ok(TRUE) =>
              /\ take_token_script(cev.stored, capacity, refill_rate, cev.cost,
                                   now).ret = 1
              /\ cache["k1"].present
              /\ cache["k1"].tokens = capacity - cev.cost
        /\ cev.res # Ok(TRUE) =>
              /\ cache["k1"] = cev.entry
              /\ cev.res = Ok(FALSE) =>
                    take_token_script(cev.stored, capacity, refill_rate, cev.cost,
                                      now).ret = 0
        /\ cev.res.kind = "Ok" =>
              store["k1"] = take_token_script(cev.stored, capacity, refill_rate,
                                              cev.cost, now).rec

\* an expired entry that would have covered the cost is passed over and the
\* store refuses the take
CacheMissWitness ==
    /\ cev.op = "take_token"
    /\ cev.entry.present /\ cev.entry.expires_at <= now
    /\ cev.entry.tokens >= cev.cost
    /\ cev.res = Ok(FALSE)

\* C39: over a backend that never fails, a take of cost 0 through the wrapper is
\* Admitted whatever the LocalBatch and the bucket underneath hold, and takes
\* nothing from the backend: its usage is what it was before the call
CostZeroBatch ==
    (IsBatchCheck /\ backend = "memory" /\ bev.cost = 0) =>
        /\ bev.res = Ok(TRUE)
        /\ bev.takes = 0
        /\ \A k \in BatchKeys :
              Memory_get_usage(buckets, k, now).res
                  = Memory_get_usage([buckets EXCEPT ![k] = bev.before], k, now).res


\* the tokens the backend holds for the key: a bucket not yet created is full
Held(b) == IF b.present THEN b.tokens ELSE capacity

\* C33: a BatchingBackend take_token cancelled while it waits inside
\* reserve_batch has made only steps that leave every local table as it was
\* (no LocalBatch inserted, no available changed), the cancellation itself
\* changes neither the tables nor the backend nor what was taken, nothing runs
\* afterwards for the cancelled call, and every token that leaves the
\* underlying bucket leaves it in one take_token(key, 1) of a reservation,
\* counted once
CancelledReservation ==
    [][\A w \in Workers :
          \* the steps a cancelled call is made of: enter, load, failed
          \* compare_exchange, reservation takes, the drop
          /\ (pc'[w] # pc[w] /\ pc'[w] = "dropped") => pc[w] = "reserve"
          /\ (pc'[w] # pc[w] /\ pc'[w] = "reserve") => pc[w] \in {"fast", "cas"}
          /\ (pc'[w] # pc[w] /\ pc'[w] = "cas") => pc[w] = "fast"
          /\ (pc'[w] # pc[w] /\ pc'[w] = "fast") => pc[w] \in {"idle", "dropped"}
          /\ ((pc'[w] # pc[w] \/ left'[w] # left[w])
                 /\ pc'[w] \in {"fast", "cas", "reserve", "dropped"})
                => wcache' = wcache
          /\ (pc[w] = "reserve" /\ pc'[w] = "dropped")
                => /\ buckets' = buckets
                   /\ taken' = taken
          \* a dropped call makes no further step: the task moves again only
          \* by entering a new call
          /\ (pc[w] = "dropped" /\ (pc'[w] # pc[w] \/ left'[w] # left[w]))
                => /\ calls' = calls + 1
                   /\ pc'[w] \in {"fast", "reset_cache"}
                   /\ buckets' = buckets /\ wcache' = wcache /\ taken' = taken
          /\ \A k \in BatchKeys :
                Held(buckets'[k]) < Held(buckets[k])
                    => /\ Held(buckets'[k]) = Held(buckets[k]) - 1
                       /\ \E v \in Workers :
                             /\ pc[v] = "reserve"
                             /\ left'[v] = left[v] - 1
                             /\ taken' = [taken EXCEPT ![wrapper[v]] = @ + 1]
      ]_vars

\* the only call so far was cancelled in the middle of its reservation: one of
\* the two tokens of its batch is taken from the backend, no LocalBatch exists
CancelledReservationWitness ==
    \E w \in Workers :
        /\ pc[w] = "dropped"
        /\ calls = 1
        /\ batch_size = 2
        /\ taken[wrapper[w]] = 1
        /\ \A k \in BatchKeys : ~BatchOf(w, k).present /\ Held(buckets[k]) = capacity - 1


(* ------ one CachedRedisBackend called by several tasks, step by step ---- *)
MaxCachedCalls == 3

notCc == <<bucketVars, wop, wnow, to_add, nAdmitted, admLog, seqVars, rlog, rev,
           batchVars, svcVars, arcVars, retryVars, wrapper, wcache, left, taken, cache_ttl,
           cev>>

\* nothing is recorded for the key's cache entry
NoSpend == [held |-> 0, spent |-> 0]

\* a task enters CachedRedisBackend::take_token or ::reset (redis lib.rs 290, 312)
CcCall(w, op, cost) ==
    /\ clog # <<>>
    /\ pc[w] = "idle"
    /\ calls < MaxCachedCalls
    /\ calls' = calls + 1
    /\ wcost' = [wcost EXCEPT ![w] = IF op = "take_token" THEN cost ELSE 0]
    /\ pc' = [pc EXCEPT ![w] = IF op = "take_token" THEN "get" ELSE "creset"]
    /\ UNCHANGED <<cfgVars, now, current, cache, clog, store, tlock, notCc>>

\* get_cached under the read lock, then the test of cached_tokens against cost
\* (redis lib.rs 292-293, 265-275)
CcGet(w, k) ==
    LET hit == get_cached(cache, k, now)
    IN /\ pc[w] = "get"
       /\ \A v \in Workers : tlock[v] # "write"
       /\ tlock' = Release(Acquire(tlock, w, "read"), w)
       /\ IF hit.some /\ hit.tokens >= wcost[w]
          THEN /\ current' = [current EXCEPT ![w] = hit.tokens]
               /\ pc' = [pc EXCEPT ![w] = "set"]
          ELSE /\ current' = current
               /\ pc' = [pc EXCEPT ![w] = "store"]
       /\ UNCHANGED <<cfgVars, now, wcost, calls, cache, clog, store, notCc>>

\* the hit path: set_cache(key, cached_tokens - cost) under the write lock,
\* return Ok(true) (redis lib.rs 294-295, 277-286)
CcSet(w, k) ==
    /\ pc[w] = "set"
    /\ \A v \in Workers : tlock[v] = "none"
    /\ tlock' = Release(Acquire(tlock, w, "write"), w)
    /\ cache' = set_cache(cache, k, current[w] - wcost[w], now, cache_ttl,
                          cache[k].filled_at)
    /\ clog' = [clog EXCEPT ![k].spent = @ + wcost[w]]
    /\ pc' = [pc EXCEPT ![w] = "idle"]
    /\ UNCHANGED <<cfgVars, now, wcost, current, calls, store, notCc>>

\* the fallback: self.redis.take_token(key, cost).await (redis lib.rs 300); a
\* refusal is returned as it is
CcStore(w, k) ==
    LET r == take_token_script(store[k], capacity, refill_rate, wcost[w], now)
        hit == get_cached(cache, k, now)
    IN /\ pc[w] = "store"
       /\ store' = [store EXCEPT ![k] = r.rec]
       /\ clog' = [clog EXCEPT ![k] = [held |-> IF hit.some THEN hit.tokens ELSE 0,
                                       spent |-> 0]]
       /\ pc' = [pc EXCEPT ![w] = IF r.ret = 1 THEN "fill" ELSE "idle"]
       /\ UNCHANGED <<cfgVars, now, wcost, current, calls, cache, tlock, notCc>>

\* set_cache(key, capacity - cost) after the store admitted (redis lib.rs 301-304)
CcFill(w, k) ==
    /\ pc[w] = "fill"
    /\ \A v \in Workers : tlock[v] = "none"
    /\ tlock' = Release(Acquire(tlock, w, "write"), w)
    /\ cache' = set_cache(cache, k, capacity - wcost[w], now, cache_ttl, now)
    /\ clog' = [clog EXCEPT ![k] = [held |-> capacity - wcost[w], spent |-> 0]]
    /\ pc' = [pc EXCEPT ![w] = "idle"]
    /\ UNCHANGED <<cfgVars, now, wcost, current, calls, store, notCc>>

\* CachedRedisBackend::reset, its block under the write lock (redis lib.rs 313-316)
CcResetCache(w, k) ==
    /\ pc[w] = "creset"
    /\ \A v \in Workers : tlock[v] = "none"
    /\ tlock' = Release(Acquire(tlock, w, "write"), w)
    /\ cache' = [cache EXCEPT ![k] = NoEntry]
    /\ pc' = [pc EXCEPT ![w] = "creset_store"]
    /\ UNCHANGED <<cfgVars, now, wcost, current, calls, store, clog, notCc>>

\* CachedRedisBackend::reset, self.redis.reset(key).await (redis lib.rs 317)
CcResetStore(w, k) ==
    /\ pc[w] = "creset_store"
    /\ store' = [store EXCEPT ![k] = NoRecord]
    /\ pc' = [pc EXCEPT ![w] = "idle"]
    /\ UNCHANGED <<cfgVars, now, wcost, current, calls, cache, clog, tlock, notCc>>

\* CachedRedisBackend::new over an empty store (redis lib.rs 257-263); the
\* calls of a run all fall at one instant, inside the ttl of every entry
InitCc ==
    /\ refill_interval = DefaultInterval
    /\ capacity \in 1..MaxCapacity
    /\ refill_rate = MaxRate
    /\ cache_ttl = TickMs
    /\ now = 0
    /\ cache = [k \in StoreKeys |-> NoEntry]
    /\ cev = NoCacheEvent
    /\ clog = [k \in StoreKeys |-> NoSpend]
    /\ tlock = [w \in Workers |-> "none"]
    /\ wrapper = <<>>
    /\ wcache = <<>>
    /\ left = <<>>
    /\ taken = <<>>
    /\ pc = [w \in Workers |-> "idle"]
    /\ wcost = [w \in Workers |-> 0]
    /\ current = [w \in Workers |-> 0]
    /\ wop = <<>>
    /\ wnow = <<>>
    /\ to_add = <<>>
    /\ tokens = 0
    /\ last_refill = 0
    /\ lock = 0
    /\ present = FALSE
    /\ calls = 0
    /\ nAdmitted = 0
    /\ admLog = <<>>
    /\ IdleArc
    /\ IdleRetry
    /\ IdleBatch
    /\ IdleSvc
    /\ IdleRedis
    /\ IdleSeq

NextCc ==
    \/ \E w \in Workers, op \in {"take_token", "reset"}, c \in Costs : CcCall(w, op, c)
    \/ \E w \in Workers, k \in StoreKeys : CcGet(w, k)
    \/ \E w \in Workers, k \in StoreKeys : CcSet(w, k)
    \/ \E w \in Workers, k \in StoreKeys : CcStore(w, k)
    \/ \E w \in Workers, k \in StoreKeys : CcFill(w, k)
    \/ \E w \in Workers, k \in StoreKeys : CcResetCache(w, k)
    \/ \E w \in Workers, k \in StoreKeys : CcResetStore(w, k)

SpecCc == InitCc /\ [][NextCc]_vars

\* C36: the cost admitted from a cache entry since the last store call for the
\* key (a fill, or a take the store refused) never exceeds the tokens the
\* entry held at that store call
NoDoubleSpend ==
    \A k \in StoreKeys : clog[k].spent <= clog[k].held


(* ------------- both wrappers' tables and the locks on them ------------- *)
\* a run has BatchingBackend wrappers over a MemoryBackend, or one
\* CachedRedisBackend over the store
InitLocks == InitWrap \/ InitCc

NextLocks == NextWrap \/ NextCc

SpecLocks == InitLocks /\ [][NextLocks]_vars

\* the task waits for the inner backend: a take of reserve_batch (lib.rs 204),
\* the backend's reset (lib.rs 261), the store take (redis lib.rs 300), the
\* store's reset (redis lib.rs 317)
Suspended(w) == pc[w] \in {"reserve", "reset_backend", "store", "creset_store"}

\* C32: no task waits for the inner backend (reserve_batch's takes, the store
\* take, the delegated reset) while it holds the read or the write lock of the
\* wrapper's local table
NoLockAcrossSuspension ==
    \A w \in Workers : Suspended(w) => tlock[w] = "none"

\* a task waits in reserve_batch while another task of the same wrapper holds
\* the table's read lock on the fast path
NoLockAcrossSuspensionWitness ==
    \E w \in Workers, v \in Workers :
        /\ pc[w] = "reserve"
        /\ wrapper[v] = wrapper[w]
        /\ tlock[v] = "read"


(* ------- one client retrying take(k, cost) through the take script ------ *)
\* Instants are counted from the client's latest call: the script reads only
\* now - last_refill (redis lib.rs 57), so a wait of gap ms moves the record's
\* last_refill back by gap, and each call runs at instant 0.
notRetry == <<concVars, seqVars, batchVars, svcVars, cacheVars, wrapVars, arcVars,
              rlog, rev>>

Gaps == {i * RefillStepMs : i \in 1..MaxRefillSteps}

\* the client waits gap ms before it calls again
RetrySleep(k) ==
    /\ retry.phase = "sleep"
    /\ store' = [store EXCEPT ![k].last_refill = @ - retry.gap]
    /\ retry' = [retry EXCEPT !.phase = "call"]
    /\ UNCHANGED <<cfgVars, now, notRetry>>

\* RedisBackend::take_token (redis lib.rs 110-128): the script runs; the
\* client stops when it is admitted and otherwise waits again
RetryTake(k) ==
    LET r == take_token_script(store[k], capacity, refill_rate, retry.cost, now)
    IN /\ retry.phase = "call"
       /\ store' = [store EXCEPT ![k] = r.rec]
       /\ retry' = [retry EXCEPT !.phase = IF r.ret = 1 THEN "admitted" ELSE "sleep"]
       /\ UNCHANGED <<cfgVars, now, notRetry>>

\* the key is drained: its record, written by a call at instant 0, holds
\* fewer tokens than the client's cost; refill_rate > 0, 1 <= cost <= capacity
InitRetry ==
    /\ refill_interval = DefaultInterval
    /\ capacity \in 1..MaxCapacity
    /\ refill_rate \in 1..MaxRate
    /\ now = 0
    /\ \E c \in 1..capacity, g \in Gaps :
          retry = [phase |-> "sleep", cost |-> c, gap |-> g]
    /\ \E t \in 0..(retry.cost - 1) :
          store = [k \in StoreKeys |-> [present |-> TRUE, tokens |-> t, last_refill |-> 0]]
    /\ rlog = [k \in StoreKeys |-> NoTakes]
    /\ rev = NoRedisEvent
    /\ IdleCache
    /\ IdleWrap
    /\ IdleArc
    /\ IdleBatch
    /\ IdleSvc
    /\ IdleConc
    /\ IdleSeq

NextRetry ==
    \/ \E k \in StoreKeys : RetrySleep(k)
    \/ \E k \in StoreKeys : RetryTake(k)

\* the client keeps retrying and time keeps advancing
SpecRetry == InitRetry /\ [][NextRetry]_vars /\ WF_vars(NextRetry)

\* C37: with refill_rate > 0 and 1 <= cost <= capacity, the client retrying
\* take(k, cost) on a drained key is eventually admitted, whatever the gap
\* between its calls
RetryProgress == <>(retry.phase = "admitted")


(* ---- two keys on one MemoryBackend, directly or through a wrapper ----- *)
\* the RateLimiter of a run is built over the MemoryBackend itself (there is
\* no local table) or over one BatchingBackend that wraps it
Wrapped == local_cache # <<>>

\* the state a key would be in had no other key ever been used
Alone(m, k) == [j \in DOMAIN m |-> IF j = k THEN m[j] ELSE NoBucket]
AloneBatch(lc, k) == [j \in DOMAIN lc |-> IF j = k THEN lc[j] ELSE NoBatch]

InitIsolation ==
    /\ capacity = MaxCapacity
    /\ refill_rate = MaxRate
    /\ refill_interval = DefaultInterval
    /\ now = 0
    /\ backend = "memory"
    /\ fail_open = FALSE
    /\ buckets = [k \in Keys |-> NoBucket]
    /\ ledger = [k \in Keys |-> NoLedger]
    /\ ev = NoEvent
    /\ \/ /\ batch_size = 1
          /\ local_cache = <<>>
       \/ /\ batch_size \in 1..MaxBatch
          /\ local_cache = [k \in Keys |-> NoBatch]
    /\ bev = NoBatchEvent
    /\ blog = NoBatchLog
    /\ IdleSvc
    /\ IdleLater
    /\ IdleConc
    /\ IdleRedis

NextIsolation ==
    \/ \E k \in Keys, c \in Costs : ~Wrapped /\ CheckLimit(k, c)
    \/ \E k \in Keys : ~Wrapped /\ GetUsage(k)
    \/ \E k \in Keys : ~Wrapped /\ Reset(k)
    \/ \E k \in Keys, c \in Costs : Wrapped /\ BatchCheckLimit(k, c)
    \/ \E k \in Keys : Wrapped /\ BatchGetUsage(k)
    \/ \E k \in Keys : Wrapped /\ BatchReset(k)
    \/ now < ConcTicks * TickMs /\ Tick

SpecIsolation == InitIsolation /\ [][NextIsolation]_vars

\* the key the operation of this step is on, and what the operation is
StepKey == IF Wrapped THEN bev'.key ELSE ev'.key
StepOp == IF Wrapped THEN bev'.op ELSE ev'.op

\* C38: take, usage and reset on one key, on the MemoryBackend directly or
\* through the BatchingBackend, leave the bucket (existence, tokens,
\* last_refill) and the LocalBatch of every other key as they were, and the
\* result of an operation on a key is the one it has when no other key was
\* ever used
KeyIsolation ==
    [][now' = now =>
          /\ StepOp # "none"
          /\ \A k \in Keys \ {StepKey} :
                /\ buckets'[k] = buckets[k]
                /\ Wrapped => local_cache'[k] = local_cache[k]
          /\ ~Wrapped /\ StepOp = "check_limit" =>
                ev'.result = check_limit(take_token(Alone(buckets, StepKey), StepKey,
                                                    ev'.cost, now).res, fail_open)
          /\ ~Wrapped /\ StepOp = "get_usage" =>
                ev'.result = get_usage(Alone(buckets, StepKey), StepKey, now).res
          /\ Wrapped /\ StepOp = "check_limit" =>
                bev'.res = Batching_take_token(Alone(buckets, StepKey),
                                               AloneBatch(local_cache, StepKey),
                                               StepKey, bev'.cost, now).res
          /\ Wrapped /\ StepOp = "get_usage" =>
                bev'.res = get_usage(Alone(buckets, StepKey), StepKey, now).res
      ]_vars

\* through the wrapper, a take on k2 is admitted while k1 has a LocalBatch and
\* a bucket of its own, both partly used
KeyIsolationWitness ==
    /\ Wrapped
    /\ bev.op = "check_limit"
    /\ bev.key = "k2"
    /\ bev.res = Ok(TRUE)
    /\ local_cache["k1"].present
    /\ local_cache["k1"].available < batch_size
    /\ buckets["k1"].present
    /\ buckets["k1"].tokens < capacity
    /\ local_cache["k2"].present

====
